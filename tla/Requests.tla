------------------------------ MODULE Requests ------------------------------
(***************************************************************************)
(* The requests a server is handling at once: each is a goroutine with a   *)
(* connection and, at times, a transaction of the database.                *)
(***************************************************************************)
CONSTANTS
  Request,
  None        \* no request, no row

ASSUME NoneIsNoRequest == None \notin Request
=============================================================================
