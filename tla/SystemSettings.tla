---------------------------- MODULE SystemSettings ----------------------------
(***************************************************************************)
(* The administrator's settings (modules/admin-system-settings): a PATCH   *)
(* is validated as a whole, compared with the rows, saved in a transaction *)
(* of the keys that differ, read back, audited, and the cache in front of  *)
(* the rows is cleared.  Requests read single keys through the cache.      *)
(***************************************************************************)
EXTENDS Integers, Sequences

CONSTANTS
    Keys,          \* the keys of DEFAULT_SETTINGS in play
    Bodies,        \* request bodies: sequences of [key, value]
    Admins,        \* PATCH requests in flight
    Readers,       \* requests that read one key
    MaxCommits     \* bound on the transactions that are run

VARIABLES
    row,      \* row[k]: the stored value, NoRow when there is none
    cache,    \* cache[k]: the entry of the in-memory cache
    patch,    \* patch[a]: where a PATCH request stands
    read,     \* read[r]: where a reader stands
    commits,  \* the changes [key, from, to] that were saved (history)
    saves,    \* how many transactions were run (history)
    audits,   \* the changes the audit log tells (history)
    overlapped  \* a PATCH has begun while another was in flight (history)

vars == <<row, cache, patch, read, commits, saves, audits, overlapped>>
history == <<commits, saves, audits, overlapped>>

-----------------------------------------------------------------------------
(* Validation.  A value is a word, a number (in halves) or a text, which   *)
(* may have blanks around it.                                              *)

Word(w) == [kind |-> "word", word |-> w]
Halves(n) == [kind |-> "number", halves |-> n]
Text(content, padded) == [kind |-> "text", content |-> content, padded |-> padded]
Invalid == [kind |-> "invalid"]
NoRow == [kind |-> "none"]
NoKey == "no key"

BooleanKeys == {"maintenanceMode", "registrationOpen"}
NumberRange == [smtpPort |-> 1 .. 65535, maxDevicesPerUser |-> 1 .. 20]
NullableKeys == {"smtpHost"}
EnumValues == [storageProvider |-> {"s3", "gcs", "r2"}]
LegacyAlias == [provider |-> "storageProvider"]
Default == [maintenanceMode |-> Word("false"), registrationOpen |-> Word("true"),
            smtpPort |-> Halves(1174), maxDevicesPerUser |-> Halves(8),
            smtpHost |-> Text("", FALSE), storageProvider |-> Text("s3", FALSE)]

Value == [kind : {"word"}, word : STRING] \cup [kind : {"number"}, halves : Int]
            \cup [kind : {"text"}, content : STRING, padded : BOOLEAN]
\* A body is JSON with scalar values.
SettingsAssumption ==
    /\ Keys \subseteq DOMAIN Default
    /\ Bodies \subseteq Seq([key : STRING, value : Value])
    /\ MaxCommits \in Nat

CanonicalKey(raw) ==
    IF raw \in Keys THEN raw
    ELSE IF raw \in DOMAIN LegacyAlias THEN LegacyAlias[raw] ELSE NoKey

NormalizeBoolean(v) ==
    CASE v \in {Word(w) : w \in {"true", "yes", "on"}} \cup {Halves(2)} -> Word("true")
      [] v \in {Word(w) : w \in {"false", "no", "off"}} \cup {Halves(0)} -> Word("false")
      [] OTHER -> Invalid
\* Rounding to the nearest integer, after the range was tested.
RoundedUp(k, v) ==
    IF v.kind = "number" /\ (v.halves \div 2) \in NumberRange[k]
    THEN Halves(((v.halves + 1) \div 2) * 2) ELSE Invalid
SanitizeNumber(k, v) ==
    IF v.kind = "number" /\ (v.halves \div 2) \in NumberRange[k]
    THEN Halves((v.halves \div 2) * 2) ELSE Invalid
SanitizeText(k, v) ==
    IF /\ v.kind = "text"
       /\ v.content = "" => k \in NullableKeys
       /\ k \in DOMAIN EnumValues => v.content \in EnumValues[k]
    THEN Text(v.content, FALSE) ELSE Invalid
SanitizeByKey(k, v) ==
    CASE k \in BooleanKeys -> NormalizeBoolean(v)
      [] k \in DOMAIN NumberRange -> SanitizeNumber(k, v)
      [] OTHER -> SanitizeText(k, v)

\* What readers of the whole table see: a value that does not parse is the default.
Normalize(k, v) ==
    LET s == SanitizeByKey(k, v) IN IF v = NoRow \/ s = Invalid THEN Default[k] ELSE s
NormalizeSettings(raw) == [k \in Keys |-> Normalize(k, raw[k])]

ValidBody(body) ==
    /\ body # <<>>
    /\ \A i \in DOMAIN body :
        LET k == CanonicalKey(body[i].key)
        IN k # NoKey /\ SanitizeByKey(k, body[i].value) # Invalid

\* Of two names of one key the later one counts.
Updates(body) ==
    LET At(k) == {i \in DOMAIN body : CanonicalKey(body[i].key) = k}
        Last(k) == CHOOSE i \in At(k) : \A j \in At(k) : j <= i
    IN [k \in {key \in Keys : At(key) # {}} |-> SanitizeByKey(k, body[Last(k)].value)]

-----------------------------------------------------------------------------
Idle == [at |-> "idle"]
NoEntry == [kind |-> "none"]
Entry(v) == [value |-> v, expired |-> FALSE]

Init ==
    /\ row = [k \in Keys |-> NoRow]
    /\ cache = [k \in Keys |-> NoEntry]
    /\ patch = [a \in Admins |-> Idle]
    /\ read = [r \in Readers |-> Idle]
    /\ commits = {} /\ saves = 0
    /\ audits = {}
    /\ overlapped = FALSE

Goto(a, state) == patch' = [patch EXCEPT ![a] = state]

(* PATCH: a body with an unknown key or a value that does not parse goes   *)
(* nowhere; otherwise the rows are read and what differs is kept.          *)
Different(updates) ==
    LET current == NormalizeSettings(row)
    IN {k \in DOMAIN updates : updates[k] # current[k]}

UpdateSettings(a, body) ==
    /\ patch[a] = Idle
    /\ ValidBody(body)
    /\ LET updates == Updates(body)
       IN Goto(a, [at |-> "save", updates |-> updates, changed |-> Different(updates),
                   previous |-> NormalizeSettings(row)])
    /\ overlapped' = (overlapped \/ \E b \in Admins : patch[b] # Idle)
    /\ UNCHANGED <<row, cache, read, commits, saves, audits>>

(* One transaction of upserts.                                             *)
Saved(a) == [k \in Keys |-> IF k \in patch[a].changed THEN patch[a].updates[k] ELSE row[k]]
UpsertMany(a) ==
    /\ patch[a].at = "save"
    /\ patch[a].changed # {}
    /\ saves < MaxCommits
    /\ row' = Saved(a)
    /\ saves' = saves + 1
    /\ commits' = commits \cup
            {[key |-> k, from |-> Normalize(k, row[k]), to |-> Saved(a)[k]] : k \in patch[a].changed}
    /\ Goto(a, [patch[a] EXCEPT !.at = "reread"])
    /\ UNCHANGED <<cache, read, audits, overlapped>>
\* Nothing differs: "No changes detected", no audit, the cache stays.
NothingChanged(a) ==
    /\ patch[a].at = "save"
    /\ patch[a].changed = {}
    /\ Goto(a, Idle)
    /\ UNCHANGED <<row, cache, read, history>>
\* The transaction or a query fails, or the process stops: the statements
\* after it, the entry and the invalidation among them, are not reached.
PatchFails(a) ==
    /\ patch[a] # Idle
    /\ Goto(a, Idle)
    /\ UNCHANGED <<row, cache, read, history>>

(* The rows are read again and the change is told to the audit log; an     *)
(* entry that is not persisted is only logged (writeAuditLog).             *)
Described(a) ==
    {[key |-> k, from |-> patch[a].previous[k], to |-> NormalizeSettings(row)[k]] :
        k \in patch[a].changed}
Audit(a) ==
    /\ patch[a].at = "reread"
    /\ audits' \in {audits, audits \cup Described(a)}
    /\ Goto(a, [at |-> "invalidate"])
    /\ UNCHANGED <<row, cache, read, commits, saves, overlapped>>

\* invalidate() clears every entry.
Invalidate(a) ==
    /\ patch[a].at = "invalidate"
    /\ cache' = [k \in Keys |-> NoEntry]
    /\ Goto(a, Idle)
    /\ UNCHANGED <<row, read, history>>

UpdateStep(a) ==
    \/ \E body \in Bodies : UpdateSettings(a, body)
    \/ UpsertMany(a) \/ NothingChanged(a) \/ PatchFails(a)
    \/ Audit(a) \/ Invalidate(a)

-----------------------------------------------------------------------------
(* Reading one key: an entry that has not expired is served; otherwise the *)
(* row is fetched and, when the answer is back, put into the cache.        *)

Hit(k) == cache[k] # NoEntry /\ ~cache[k].expired
StoredOrDefault(k) == IF row[k] = NoRow THEN Default[k] ELSE row[k]
Get(r, k) ==
    /\ read[r] = Idle
    /\ ~Hit(k)
    /\ read' = [read EXCEPT ![r] = [at |-> "fetched", key |-> k, value |-> StoredOrDefault(k)]]
    /\ UNCHANGED <<row, cache, patch, history>>
Fill(r) ==
    /\ read[r].at = "fetched"
    /\ cache' = [cache EXCEPT ![read[r].key] = Entry(read[r].value)]
    /\ read' = [read EXCEPT ![r] = Idle]
    /\ UNCHANGED <<row, patch, history>>

Expire(k) ==
    /\ cache[k] # NoEntry
    /\ ~cache[k].expired
    /\ cache' = [cache EXCEPT ![k].expired = TRUE]
    /\ UNCHANGED <<row, patch, read, history>>

Next ==
    \/ \E a \in Admins : UpdateStep(a)
    \/ \E r \in Readers : (\E k \in Keys : Get(r, k)) \/ Fill(r)
    \/ \E k \in Keys : Expire(k)

Spec == Init /\ [][Next]_vars
\* A fetch comes back and the clock runs.
FairSpec ==
    /\ Spec
    /\ \A r \in Readers : WF_vars(Fill(r))
    /\ \A k \in Keys : WF_vars(Expire(k))

-----------------------------------------------------------------------------
\* Of the value records only the kinds are told apart here.
Kinds == {"word", "number", "text"}
TypeOK ==
    /\ \A k \in Keys : row[k] = NoRow \/ row[k].kind \in Kinds
    /\ \A k \in Keys : cache[k] = NoEntry \/ cache[k].value.kind \in Kinds
    /\ \A a \in Admins : patch[a].at \in {"idle", "save", "reread", "invalidate"}
    /\ \A r \in Readers : read[r].at \in {"idle", "fetched"}
    /\ saves \in 0 .. MaxCommits

(* The cache serves raw rows and the settings page normalized ones          *)
(* (getBoolean reads words, normalizeSettings parses): whatever spelling an *)
(* administrator sent, both see the same value.                             *)
ReadersAgree == \A k \in Keys : StoredOrDefault(k) = NormalizeSettings(row)[k]

(* As long as no PATCH overlaps another, the audit log tells changes that   *)
(* were made: a value that was replaced and the value that replaced it.     *)
AuditsHappened == ~overlapped => audits \subseteq commits

(* However a fetch and an invalidation interleave, a reader that asks again *)
(* and again is served the stored value in the end: an entry ages and goes. *)
StaleEntriesGo ==
    \A k \in Keys :
        [](Hit(k) /\ cache[k].value # StoredOrDefault(k)
            => <>(~Hit(k) \/ cache[k].value = StoredOrDefault(k)))
=============================================================================
