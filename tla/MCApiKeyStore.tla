---------------------------- MODULE MCApiKeyStore ----------------------------
(* The settings of ApiKeyStore that TLC goes through.                         *)
EXTENDS ApiKeyStore

CONSTANTS admin, client, v

(* One administrator does anything there is, one thing at a time, and keys    *)
(* expire.                                                                    *)
Serial == [users |-> {admin}, kinds |-> AllKinds, volatile |-> {v}, maxTime |-> 2, faults |-> {}]

(* So does one, of a core that dies and in which nobody logs in.              *)
Restarted == [Serial EXCEPT !.kinds = AllKinds \ Logins, !.faults = {"crash"}]

(* A client's refreshes and restarts cross the requests of the administrator. *)
Crossed == [users |-> {client}, kinds |-> AllKinds \ Logins, volatile |-> {v},
            maxTime |-> 1, faults |-> {"crash"}]

SerialAndCrossed == {Serial, Restarted, Crossed}

(* Users log in.                                                              *)
LoggingIn == {[users |-> {}, kinds |-> {"login"}, volatile |-> {}, maxTime |-> 1, faults |-> {}]}
=============================================================================
