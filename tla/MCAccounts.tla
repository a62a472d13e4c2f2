------------------------------ MODULE MCAccounts ------------------------------
(***************************************************************************)
(* Accounts and Sessions on small instances.  A behaviour runs one part,   *)
(* whose variables move while those of the other stay initial, and which   *)
(* may restrict the steps to bound the instance:                           *)
(*   "accounts"  requests about one user interleave,                       *)
(*   "serial"    requests about two users, one at a time,                  *)
(*   "sessions"  calls of one user interleave and may crash,               *)
(*   "calm"      its calls one at a time, for a longer time.               *)
(***************************************************************************)
EXTENDS UserAccounts, TLC

CONSTANTS u1, RaceTime    \* the user, and the end of the clock, of the races

VARIABLE part
partVars == <<part, vars, sessionVars>>

PartInit ==
    /\ part \in {"accounts", "serial", "sessions", "calm"}
    /\ Init
    /\ Session!Init

\* Only user u1 is created, active.
OneUser ==
    /\ \A u \in Users \ {u1} : user[u] = NoRow
    /\ \A c \in Calls : call[c].at = "insert" => call[c].user = u1 /\ call[c].row.active

\* One request at a time, which writes the password and the flag or neither.
Serial ==
    /\ \A c, d \in Calls : c = d \/ call[c] = Idle \/ call[d] = Idle
    /\ torn = {}

PartNext ==
    \/ part = "accounts" /\ Next /\ OneUser' /\ UNCHANGED <<part, sessionVars>>
    \/ part = "serial" /\ Next /\ Serial' /\ UNCHANGED <<part, sessionVars>>
    \/ part = "sessions" /\ Session!Next /\ now' <= RaceTime /\ UNCHANGED <<part, vars>>
    \/ part = "calm" /\ Session!Next /\ calm' /\ UNCHANGED <<part, vars>>

PartSpec == PartInit /\ [][PartNext]_partVars

Symmetry == Permutations(Calls)
=============================================================================
