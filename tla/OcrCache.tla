------------------------------ MODULE OcrCache ------------------------------
(***************************************************************************)
(* The directory of recognised page texts that several engine processes    *)
(* share without a lock (engine/ocr_cache.py).  A write takes an inventory, *)
(* removes what is too old or in the way, writes a temporary file and       *)
(* renames it; other processes write, clear and read between these steps,   *)
(* and a process may end at any of them.                                    *)
(*                                                                          *)
(* Ages are counted in ticks; a page's text has a fixed size.  What makes   *)
(* an entry unusable (a broken checksum, a field of another page, records   *)
(* outside the page) is one flag.                                           *)
(***************************************************************************)
EXTENDS Integers, FiniteSets, FiniteSetsExt

CONSTANTS
    Procs,       \* engine processes
    Keys,        \* a page of a document under a recipe
    Size,        \* the size of each page's entry
    MaxBytes,    \* MAX_CACHE_BYTES
    MaxEntries,  \* MAX_ENTRIES
    Retention,   \* RETENTION_DAYS
    TempAge,     \* the hour after which a temporary file is nobody's
    MaxTime, MaxWrites, MaxFaults   \* bounds of the model

CacheAssumption ==
    /\ Size \in [Keys -> Nat \ {0}]
    /\ \A k \in Keys : Size[k] <= MaxBytes
    /\ MaxEntries \in Nat \ {0} /\ Retention \in Nat /\ TempAge \in Nat

VARIABLES
    now,
    files,       \* the entry of each page, with the number of its write
    orphans,     \* when the temporary files of dead processes were written
    work,        \* what each process is doing
    got,         \* what the last read returned
    writes,
    faults

vars == <<now, files, orphans, work, got, writes, faults>>

None == [none |-> TRUE]
Idle == [step |-> "idle"]

Init ==
    /\ now = 0
    /\ files = [k \in Keys |-> None]
    /\ orphans = {}
    /\ work = [p \in Procs |-> Idle]
    /\ got = None
    /\ writes = 0
    /\ faults = 0

Stored == {k \in Keys : files[k] # None}
Bytes(K) == MapThenSumSet(LAMBDA k : Size[k], K)
Doing(p, step) == work[p].step = step
Become(p, w) == work' = [work EXCEPT ![p] = w]
Expired(at) == now - at > Retention
Stale(at) == now - at > TempAge

(***************************************************************************)
(* _inventory: every entry with its age; temporary files older than an hour *)
(* are removed on the way, those of a live but slow process included.       *)
(***************************************************************************)
HasTemp(p) == work[p].step \in {"writing", "written"} /\ work[p].temp
Slow == {p \in Procs : HasTemp(p) /\ Stale(work[p].at)}
Seen(K) == {[key |-> k, at |-> files[k].at] : k \in K}

\* A temporary file another process still holds open may refuse its removal,
\* which ends the inventory with an error.
InventoryFails == \E p \in Slow : Doing(p, "writing")

Inventory(p, w) ==
    /\ orphans' = {at \in orphans : ~Stale(at)}
    /\ work' = [q \in Procs |->
                  IF q = p THEN w
                  ELSE IF q \in Slow THEN [work[q] EXCEPT !.temp = FALSE] ELSE work[q]]

-----------------------------------------------------------------------------
(***************************************************************************)
(* put                                                                      *)
(***************************************************************************)
Putting == {q \in Procs : work[q].step \in {"pruning", "writing", "written"}}

StartPut(p, k) ==
    /\ Doing(p, "idle") /\ writes + Cardinality(Putting) < MaxWrites
    /\ LET kept == Stored \ {k} IN
       Inventory(p, [step |-> "pruning", key |-> k, left |-> Seen(kept),
                     count |-> Cardinality(kept), total |-> Bytes(kept)])
    /\ UNCHANGED <<now, files, got, writes, faults>>

Full(w) == w.total + Size[w.key] > MaxBytes \/ w.count >= MaxEntries
Oldest(w) == {e \in w.left : \A o \in w.left : e.at <= o.at}
MustGo(w, e) == Expired(e.at) \/ Full(w)

\* Fault: the size of the new entry is given back instead of the old one's.
PruneMutant(p) ==
    /\ Doing(p, "pruning")
    /\ \E e \in Oldest(work[p]) :
         /\ MustGo(work[p], e)
         /\ files' = [files EXCEPT ![e.key] = None]
         /\ Become(p, [work[p] EXCEPT !.left = @ \ {e}, !.count = @ - 1, !.total = @ - Size[work[p].key]])
    /\ UNCHANGED <<now, orphans, got, writes, faults>>

\* One turn of _prune: the entry found under the name now goes, whichever it
\* is; one that is gone already frees nothing.
Prune(p) ==
    /\ Doing(p, "pruning")
    /\ \E e \in Oldest(work[p]) :
         /\ MustGo(work[p], e)
         /\ LET w == [work[p] EXCEPT !.left = @ \ {e}] IN
            IF files[e.key] # None
            THEN /\ files' = [files EXCEPT ![e.key] = None]
                 /\ Become(p, [w EXCEPT !.count = @ - 1, !.total = @ - Size[e.key]])
            ELSE files' = files /\ Become(p, w)
    /\ UNCHANGED <<now, orphans, got, writes, faults>>

\* The end of _prune and the creation of the temporary file.
Reserve(p) ==
    /\ Doing(p, "pruning")
    /\ \A e \in Oldest(work[p]) : ~MustGo(work[p], e)
    /\ Become(p, IF Full(work[p]) THEN Idle
                 ELSE [step |-> "writing", key |-> work[p].key, at |-> now, temp |-> TRUE])
    /\ UNCHANGED <<now, files, orphans, got, writes, faults>>

Write(p) ==
    /\ Doing(p, "writing")
    /\ Become(p, [work[p] EXCEPT !.step = "written", !.at = IF work[p].temp THEN now ELSE @])
    /\ UNCHANGED <<now, files, orphans, got, writes, faults>>

\* os.replace: a temporary file somebody removed cannot be renamed.
Replace(p) ==
    /\ Doing(p, "written")
    /\ IF work[p].temp
       THEN /\ files' = [files EXCEPT ![work[p].key] =
                           [of |-> work[p].key, at |-> work[p].at, n |-> writes + 1, sound |-> TRUE]]
            /\ writes' = writes + 1
       ELSE UNCHANGED <<files, writes>>
    /\ Become(p, Idle)
    /\ UNCHANGED <<now, orphans, got, faults>>

\* Any step of a put may fail; its temporary file is then removed.
PutFails(p) ==
    /\ p \in Putting /\ faults < MaxFaults
    /\ faults' = faults + 1
    /\ Become(p, Idle)
    /\ UNCHANGED <<now, files, orphans, got, writes>>

-----------------------------------------------------------------------------
(***************************************************************************)
(* get: absent, expired or unsound entries are misses.                      *)
(***************************************************************************)

Usable(k) == files[k] # None /\ ~Expired(files[k].at) /\ files[k].sound /\ files[k].of = k

Get(p, k) ==
    /\ Doing(p, "idle")
    /\ got' = IF Usable(k) THEN [asked |-> k, file |-> files[k]] ELSE None
    /\ UNCHANGED <<now, files, orphans, work, writes, faults>>

(***************************************************************************)
(* clear_cache                                                              *)
(***************************************************************************)
StartClear(p) ==
    /\ Doing(p, "idle")
    /\ Inventory(p, [step |-> "clearing", left |-> Stored, failed |-> FALSE, since |-> writes])
    /\ UNCHANGED <<now, files, got, writes, faults>>

\* An inventory that fails ends a put without a write and a clearing without
\* a removal: both are reported or dropped, neither raises.
StartFails(p) ==
    /\ Doing(p, "idle") /\ InventoryFails
    /\ \E removed \in SUBSET orphans :
         /\ \A at \in removed : Stale(at)
         /\ orphans' = orphans \ removed
    /\ UNCHANGED <<now, files, work, got, writes, faults>>

ClearOne(p) ==
    /\ Doing(p, "clearing")
    /\ \E k \in work[p].left :
         \/ /\ files' = [files EXCEPT ![k] = None]
            /\ Become(p, [work[p] EXCEPT !.left = @ \ {k}])
            /\ UNCHANGED faults
         \/ /\ files[k] # None /\ faults < MaxFaults
            /\ faults' = faults + 1
            /\ Become(p, [work[p] EXCEPT !.left = @ \ {k}, !.failed = TRUE])
            /\ UNCHANGED files
    /\ UNCHANGED <<now, orphans, got, writes>>

ClearDone(p) ==
    /\ Doing(p, "clearing") /\ work[p].left = {}
    /\ Become(p, Idle)
    /\ UNCHANGED <<now, files, orphans, got, writes, faults>>

-----------------------------------------------------------------------------
(***************************************************************************)
(* The world: time, the end of a process, and a file that is damaged or     *)
(* put back under another name.                                             *)
(***************************************************************************)
Crash(p) ==
    /\ ~Doing(p, "idle") /\ faults < MaxFaults
    /\ faults' = faults + 1
    /\ orphans' = IF HasTemp(p) THEN orphans \cup {work[p].at} ELSE orphans
    /\ Become(p, Idle)
    /\ UNCHANGED <<now, files, got, writes>>

\* Its content is torn (o = k) or that of another page.
Damage(k) ==
    /\ files[k] # None /\ faults < MaxFaults
    /\ faults' = faults + 1
    /\ \E o \in Keys : files' = [files EXCEPT ![k].sound = (o # k), ![k].of = o]
    /\ UNCHANGED <<now, orphans, work, got, writes>>

Tick == now < MaxTime /\ now' = now + 1
        /\ UNCHANGED <<files, orphans, work, got, writes, faults>>

Next ==
    \/ \E p \in Procs :
         \/ \E k \in Keys : StartPut(p, k) \/ Get(p, k)
         \/ Prune(p) \/ Reserve(p) \/ Write(p) \/ Replace(p) \/ PutFails(p)
         \/ StartClear(p) \/ StartFails(p) \/ ClearOne(p) \/ ClearDone(p)
         \/ Crash(p)
    \/ \E k \in Keys : Damage(k)
    \/ Tick

Spec == Init /\ [][Next]_vars

-----------------------------------------------------------------------------
Entries == [of : Keys, at : 0..MaxTime, n : 1..MaxWrites, sound : BOOLEAN]

\* Types: at most one entry per page, and each process in one known step.
CacheTypeOK ==
    /\ now \in 0..MaxTime /\ writes \in 0..MaxWrites /\ faults \in 0..MaxFaults
    /\ files \in [Keys -> Entries \cup {None}]
    /\ orphans \subseteq 0..MaxTime
    /\ \A p \in Procs :
         \/ Doing(p, "idle")
         \/ Doing(p, "pruning") /\ work[p].count \in 0..Cardinality(Keys) /\ work[p].total \in Nat
         \/ work[p].step \in {"writing", "written"} /\ work[p].key \in Keys /\ work[p].temp \in BOOLEAN
         \/ Doing(p, "clearing") /\ work[p].left \subseteq Keys
    /\ got = None \/ got.asked \in Keys

(***************************************************************************)
(* Writers check the room before they write and hold no lock, so that each  *)
(* other writer may add one entry after the check.  The cache outgrows its   *)
(* limits by no more than that, however the removals of several writers and  *)
(* clearings interleave (_prune, 85-99).                                     *)
(***************************************************************************)
CapacityKept ==
    LET others == Cardinality(Procs) - 1 IN
    /\ Cardinality(Stored) <= MaxEntries + others
    /\ Bytes(Stored) <= MaxBytes + others * Max({Size[k] : k \in Keys})

\* A read returns a whole text that was written for the page it asks for,
\* whatever writers, clearings and damage went before (get, 145-174).
HitIsTrue == got # None => got.file.sound /\ got.file.of = got.asked

(***************************************************************************)
(* A clearing that has reported no failure so far has left no entry behind   *)
(* it but those written since it began (clear_cache, 219-232).               *)
(***************************************************************************)
ClearedIsGone ==
    \A p \in Procs : Doing(p, "clearing") /\ ~work[p].failed =>
        \A k \in Stored \ work[p].left : files[k].n > work[p].since

\* Nobody takes the temporary file of a writer away within the hour it is
\* given (_inventory, 79-81).
OnlySlowLoseTheirs ==
    \A p \in Procs : work[p].step \in {"writing", "written"} /\ ~work[p].temp => Stale(work[p].at)

=============================================================================
