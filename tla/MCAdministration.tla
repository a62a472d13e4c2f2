--------------------------- MODULE MCAdministration ---------------------------
(***************************************************************************)
(* Administration on small instances.  A behaviour runs one part, whose    *)
(* variables move while those of the others stay initial, and which may    *)
(* restrict the steps to bound the instance:                               *)
(*   "access"        one request after another, tokens and rows changing,  *)
(*   "settings"      two administrators' PATCHes interleave with a reader, *)
(*   "one settings"  one at a time, keys that have an older name,          *)
(*   "flags"         two administrators at one key,                        *)
(*   "one flags"     one request at a time over two keys,                  *)
(*   "user"          three requests about one user's settings.             *)
(***************************************************************************)
EXTENDS Administration, Naturals, TLC

(* Rows of every role, one not active, one with an override that has junk  *)
(* in it; one guard of each kind.                                          *)
Row(role, active, override) == [role |-> role, active |-> active, override |-> override]
SomeRows == {
    Row("USER", TRUE, {}), Row("USER", TRUE, {"partner", "junk"}), Row("USER", FALSE, {}),
    Row("PARTNER", TRUE, {"staff"}), Row("ADMIN", TRUE, {}), Row("ADMIN", FALSE, {"own"})}
SomeGuards == {
    [kind |-> "none"],
    [kind |-> "role", roles |-> {"ADMIN"}],
    [kind |-> "role", roles |-> {"PARTNER", "ADMIN"}],
    [kind |-> "all", permissions |-> {"own", "staff"}],
    [kind |-> "any", permissions |-> {"partner", "staff"}],
    [kind |-> "self", owner |-> Other, permission |-> "staff"],
    [kind |-> "self", owner |-> User, permission |-> "staff"]}

(* A few bodies: two keys in several spellings, an old name of a key next  *)
(* to the new one, a body with one bad value and one with an unknown key.  *)
On(w) == [key |-> "maintenanceMode", value |-> [kind |-> "word", word |-> w]]
Port(n) == [key |-> "smtpPort", value |-> [kind |-> "number", halves |-> n]]
Provider(name, content) ==
    [key |-> name, value |-> [kind |-> "text", content |-> content, padded |-> TRUE]]
FewBodies == {
    <<On("on"), Port(131071)>>, <<On("no"), Port(1174)>>, <<Port(51)>>,
    <<On("yes"), Port(1)>>, <<On("maybe"), Port(930)>>,
    <<Port(930), [key |-> "colour", value |-> [kind |-> "word", word |-> "red"]]>>,
    <<Provider("storageProvider", "gcs"), Provider("provider", "r2")>>,
    <<Provider("provider", "s3"), On("on")>>, <<On("off")>>,
    <<Provider("provider", "ftp")>>}

VARIABLE part
partVars == <<part, vars, settingsVars, flagVars, userVars>>

PartInit ==
    /\ part \in {"access", "settings", "one settings", "flags", "one flags", "user"}
    /\ Init
    /\ part # "access" => account = Row("USER", TRUE, {})
    /\ Settings!Init /\ Flag!Init /\ OneUser!Init

\* One key stays out; of the other two at most two transactions are saved by one reader.
Spells ==
    /\ saves <= 2
    /\ \A a \in Admins : patch[a].at = "save" => "storageProvider" \notin DOMAIN patch[a].updates
    /\ read["another"] = Settings!Idle
    /\ \A r \in Readers : read[r].at = "fetched" => read[r].key # "storageProvider"
Aliases ==
    /\ ~overlapped
    /\ \A a \in Admins : patch[a].at = "save" => "smtpPort" \notin DOMAIN patch[a].updates
    /\ \A r \in Readers : read[r].at = "fetched" => read[r].key # "smtpPort"
OneKey ==
    /\ changes <= 3
    /\ \A a \in Admins : flagCall[a].at = "insert" => flagCall[a].row.key = "beta"

OneRequest == \A a, b \in Admins : a = b \/ flagCall[a] = Flag!Idle \/ flagCall[b] = Flag!Idle

PartNext ==
    /\ UNCHANGED part
    /\ \/ /\ part = "access" /\ Next
          /\ UNCHANGED <<settingsVars, flagVars, userVars>>
       \/ /\ Settings!Next
          /\ \/ part = "settings" /\ Spells'
             \/ part = "one settings" /\ Aliases'
          /\ UNCHANGED <<vars, flagVars, userVars>>
       \/ /\ Flag!Next
          /\ \/ part = "flags" /\ OneKey'
             \/ part = "one flags" /\ OneRequest'
          /\ UNCHANGED <<vars, settingsVars, userVars>>
       \/ /\ part = "user" /\ OneUser!Next
          /\ UNCHANGED <<vars, settingsVars, flagVars>>

PartSpec == PartInit /\ [][PartNext]_partVars

Symmetry == Permutations(Admins) \cup Permutations(Calls) \cup Permutations(Flags)
=============================================================================
