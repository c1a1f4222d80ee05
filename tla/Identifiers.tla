---------------------------- MODULE Identifiers ----------------------------
(***************************************************************************)
(* What the modules of the confirmation workflow share: the serial keys a  *)
(* subscription, its saga and its outbox message are known by, and the     *)
(* processes of the two services that run it.                              *)
(***************************************************************************)
EXTENDS Naturals

CONSTANTS Id,      \* subscriptions that may ever be created
          None,    \* no subscription
          Replica, \* processes of the subscription service
          Worker   \* processes of the notification worker

ASSUME NoneAssumption == None \notin Id
=============================================================================
