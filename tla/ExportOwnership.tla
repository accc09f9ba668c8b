--------------------------- MODULE ExportOwnership ---------------------------
(***************************************************************************)
(* The registry of exported files in src/engine/engine.py.  A client gives *)
(* every export a token; the manifest of the token says which paths it has *)
(* reserved and which files it has created, and cleanup_exports may delete *)
(* those files only.  Requests of several engine processes interleave with *)
(* each other and with a user who writes, replaces, changes and deletes    *)
(* files in the same directories.                                          *)
(*                                                                         *)
(* A section under the lock file of a token is one action: another request *)
(* that meets the lock fails with export_busy, and a process that ends in  *)
(* the section leaves the lock behind for ever.  Deleting follows the      *)
(* Windows path: the file that is checked is the file that goes.           *)
(***************************************************************************)
EXTENDS Naturals, FiniteSets

CONSTANTS
    Tokens,     \* export tokens
    Paths,      \* output paths
    Procs,      \* engine processes
    Digests,    \* contents of the source, and of what is exported from it
    Absent,     \* no file, no record
    MaxFiles,   \* bound on the files ever created
    MaxEdits    \* bound on what the user does

VARIABLES
    disk,       \* the file at a path: its identity and content
    source,     \* what the source document holds
    manifest,   \* the record of a path in the manifest of a token
    stale,      \* tokens whose lock file was left behind
    proc,       \* the request a process is at work on
    made,       \* history: the files the engine created, by identity
    given,      \* history: files reported to the client, and for what
    kept,       \* history: files whose token was released
    excused,    \* history: files whose process ended, or that could not go
    filesMade,  \* how many files there have been
    edits       \* what the user has done

ownershipVars ==
    <<disk, source, manifest, stale, proc, made, given, kept, excused, filesMade, edits>>

Idle == [at |-> "idle"]
NoOne == "user"

FileIds == 1..MaxFiles
Fresh == filesMade + 1
HasFresh == filesMade < MaxFiles

Reserved(kind) == [state |-> "reserved", kind |-> kind]
Created(kind, file) == [state |-> "created", kind |-> kind, file |-> file]
IsReserved(r) == r # Absent /\ r.state = "reserved"
IsCreated(r) == r # Absent /\ r.state = "created"

OwnershipInit ==
    /\ disk = [q \in Paths |-> Absent]
    /\ source \in Digests
    /\ manifest = [t \in Tokens |-> [q \in Paths |-> Absent]]
    /\ stale = {}
    /\ proc = [p \in Procs |-> Idle]
    /\ made = {} /\ given = {} /\ kept = {} /\ excused = {}
    /\ filesMade = 0 /\ edits = 0

\* Another request may be in the locked section of the token.
Busy(p, t) ==
    \/ t \in stale
    \/ \E o \in Procs \ {p} : proc[o] # Idle /\ proc[o].token = t

Goto(p, step) == proc' = [proc EXCEPT ![p].at = step]
Answer(p) == proc' = [proc EXCEPT ![p] = Idle]

\* _is_owned_file: the file at the path is the registered one, unchanged.
\* Fault: any file at the path will do.
OwnedMutant(q, file) == disk[q] # Absent

Owned(q, file) == disk[q] = file

-----------------------------------------------------------------------------
(* The requests.                                                           *)

Begin(p, kind, t, q, data, want, from) ==
    proc' = [proc EXCEPT ![p] =
      [at |-> "reserve", kind |-> kind, token |-> t, path |-> q,
       data |-> data, want |-> want, from |-> from, file |-> Absent]]

\* The copy of the source must have the digest that was reviewed; from here on
\* only the copy is read.
\* Fault: the copy is not compared.
SnapshotMutant(d) == TRUE

Snapshot(d) == source = d

StartExport(p, t, q, d) ==
    /\ proc[p] = Idle
    /\ Snapshot(d)
    /\ Begin(p, "pdf", t, q, source, d, Absent)
    /\ UNCHANGED <<disk, source, manifest, stale, made, given, kept, excused, filesMade, edits>>

StartIndex(p, t, q, d) ==
    /\ proc[p] = Idle
    /\ Begin(p, "xlsx", t, q, d, d, Absent)
    /\ UNCHANGED <<disk, source, manifest, stale, made, given, kept, excused, filesMade, edits>>

\* A preview is published under another token; it must still be the file that
\* the preview token created.
StartPublish(p, t, q, pt, pq) ==
    /\ proc[p] = Idle
    /\ t # pt /\ pt \notin stale
    /\ IsCreated(manifest[pt][pq])
    /\ manifest[pt][pq].kind = "pdf"
    /\ Owned(pq, manifest[pt][pq].file)
    /\ LET file == manifest[pt][pq].file
       IN Begin(p, "pdf", t, q, file.data, file.data, [path |-> pq, file |-> file])
    /\ UNCHANGED <<disk, source, manifest, stale, made, given, kept, excused, filesMade, edits>>

\* The answer to an error: most requests take their reservation back.
Fail(p) ==
    IF proc[p].at = "reserve" /\ (proc[p].kind = "xlsx" \/ proc[p].from # Absent)
    THEN Answer(p) ELSE Goto(p, "discard")

Reserve(p) ==
    LET r == proc[p]
    IN /\ r.at = "reserve"
       /\ \/ /\ Busy(p, r.token) \/ disk[r.path] # Absent
             /\ Fail(p)
             /\ UNCHANGED manifest
          \/ /\ r.token \notin stale
             /\ disk[r.path] = Absent
             /\ manifest' = [manifest EXCEPT ![r.token][r.path] = Reserved(r.kind)]
             /\ Goto(p, IF r.from = Absent THEN "staged" ELSE "copy")
       /\ UNCHANGED <<disk, source, stale, made, given, kept, excused, filesMade, edits>>

\* Writing the temporary file fails.
FailWriting(p) ==
    /\ proc[p].at \in {"staged", "copy"}
    /\ Goto(p, "discard")
    /\ UNCHANGED <<disk, source, manifest, stale, made, given, kept, excused, filesMade, edits>>

CopyPreview(p) ==
    LET q == proc[p].from.path
    IN /\ proc[p].at = "copy"
       /\ proc' = [proc EXCEPT ![p] =
            IF disk[q] = Absent THEN [@ EXCEPT !.at = "discard"]
            ELSE [@ EXCEPT !.at = "copied", !.data = disk[q].data]]
       /\ UNCHANGED <<disk, source, manifest, stale, made, given, kept, excused, filesMade, edits>>

CheckPreview(p) ==
    LET from == proc[p].from
    IN /\ proc[p].at = "copied"
       /\ Goto(p, IF Owned(from.path, from.file) /\ proc[p].data = from.file.data
                  THEN "staged" ELSE "discard")
       /\ UNCHANGED <<disk, source, manifest, stale, made, given, kept, excused, filesMade, edits>>

\* _publish_new_file: a link or a rename that never replaces an entry.

FreeFor(q) == disk[q] = Absent

PublishFile(p) ==
    LET r == proc[p]
    IN /\ r.at = "staged"
       /\ HasFresh
       /\ IF FreeFor(r.path)
          THEN LET file == [id |-> Fresh, data |-> r.data]
               IN /\ disk' = [disk EXCEPT ![r.path] = file]
                  /\ made' = made \cup {file}
                  /\ filesMade' = Fresh
                  /\ proc' = [proc EXCEPT ![p].at = "published", ![p].file = file]
          ELSE Goto(p, "discard") /\ UNCHANGED <<disk, made, filesMade>>
       /\ UNCHANGED <<source, manifest, stale, given, kept, excused, edits>>

\* _mark_output_created looks at the file before it takes the lock ...
CheckPublished(p) ==
    /\ proc[p].at = "published"
    /\ \/ /\ Goto(p, IF Owned(proc[p].path, proc[p].file) THEN "checked" ELSE "remove")
          /\ UNCHANGED excused
       \/ /\ Goto(p, "discard")    \* it cannot be read at the moment
          /\ excused' = excused \cup {proc[p].file.id}
    /\ UNCHANGED <<disk, source, manifest, stale, made, given, kept, filesMade, edits>>

\* ... and then finds the reservation, or takes the file away again.
Markable(r) == r \in {Reserved("pdf"), Reserved("xlsx")}

\* The identity was taken from the temporary file, before it was published.

Identity(p) == proc[p].file

MarkCreated(p) ==
    LET r == proc[p]
    IN /\ r.at = "checked"
       /\ \/ /\ Busy(p, r.token)
             /\ Goto(p, "remove")
             /\ UNCHANGED <<manifest, given>>
          \/ /\ r.token \notin stale
             /\ IF Markable(manifest[r.token][r.path])
                THEN /\ manifest' = [manifest EXCEPT ![r.token][r.path] =
                                       Created(r.kind, Identity(p))]
                     /\ given' = given \cup
                          {[file |-> r.file, token |-> r.token, want |-> r.want]}
                     /\ Answer(p)
                ELSE /\ Goto(p, "remove")
                     /\ UNCHANGED <<manifest, given>>
       /\ UNCHANGED <<disk, source, stale, made, kept, excused, filesMade, edits>>

\* _remove_published_file; that the file is in use is passed over.

RemovePublished(p) ==
    LET r == proc[p]
    IN /\ r.at = "remove"
       /\ \/ /\ Owned(r.path, r.file)
             /\ disk' = [disk EXCEPT ![r.path] = Absent]
             /\ UNCHANGED excused
          \/ /\ excused' = excused \cup {r.file.id}
             /\ UNCHANGED disk
       /\ Goto(p, "discard")
       /\ UNCHANGED <<source, manifest, stale, made, given, kept, filesMade, edits>>

\* Only a reservation is ever discarded.

Discardable(r) == IsReserved(r)

Discarded(t, q) ==
    IF Discardable(manifest[t][q]) THEN [manifest EXCEPT ![t][q] = Absent] ELSE manifest

Discard(p) ==
    LET r == proc[p]
    IN /\ r.at = "discard"
       /\ \/ Busy(p, r.token) /\ UNCHANGED manifest
          \/ r.token \notin stale /\ manifest' = Discarded(r.token, r.path)
       /\ Answer(p)
       /\ UNCHANGED <<disk, source, stale, made, given, kept, excused, filesMade, edits>>

-----------------------------------------------------------------------------
(* cleanup_exports and release_exports, of a process that is free.         *)

\* Created files that are still the registered ones; the others lose their
\* record only.
Deletable(t) ==
    {q \in Paths : IsCreated(manifest[t][q]) /\ Owned(q, manifest[t][q].file)}

\* The files in 'stuck' are in use; their records stay for another try.
Cleanup(t, stuck) ==
    /\ \E p \in Procs : proc[p] = Idle
    /\ t \notin stale
    /\ stuck \subseteq Deletable(t)
    /\ disk' = [q \in Paths |->
                  IF q \in Deletable(t) \ stuck THEN Absent ELSE disk[q]]
    /\ manifest' = [manifest EXCEPT ![t] =
                      [q \in Paths |-> IF q \in stuck THEN @[q] ELSE Absent]]
    /\ UNCHANGED <<source, stale, proc, made, given, kept, excused, filesMade, edits>>

\* The process ends among the files: the manifest is as it was.
CrashInCleanup(t, gone) ==
    /\ \E p \in Procs : proc[p] = Idle
    /\ t \notin stale
    /\ gone \subseteq Deletable(t) /\ gone # {}
    /\ disk' = [q \in Paths |-> IF q \in gone THEN Absent ELSE disk[q]]
    /\ stale' = stale \cup {t}
    /\ UNCHANGED <<source, manifest, proc, made, given, kept, excused, filesMade, edits>>

Release(t) ==
    /\ \E p \in Procs : proc[p] = Idle
    /\ t \notin stale
    /\ manifest' = [manifest EXCEPT ![t] = [q \in Paths |-> Absent]]
    /\ kept' = kept \cup
         {manifest[t][q].file.id : q \in {r \in Paths : IsCreated(manifest[t][r])}}
    /\ UNCHANGED <<disk, source, stale, proc, made, given, excused, filesMade, edits>>

\* What the locked section a request is about to enter does to the manifest.
SectionOf(p) ==
    LET r == proc[p]
        old == manifest[r.token][r.path]
        new == CASE r.at = "reserve" /\ disk[r.path] = Absent -> Reserved(r.kind)
                 [] r.at = "checked" /\ Markable(old) -> Created(r.kind, Identity(p))
                 [] r.at = "discard" /\ Discardable(old) -> Absent
                 [] OTHER -> old
    IN [manifest EXCEPT ![r.token][r.path] = new]

\* A process ends: between its steps, or with the lock of its token, before
\* or after the manifest was replaced.
ProcessEnds(p) ==
    LET r == proc[p]
    IN /\ r # Idle
       /\ \/ UNCHANGED <<stale, manifest>>
          \/ /\ r.at \in {"reserve", "checked", "discard"}
             /\ stale' = stale \cup {r.token}
             /\ r.token \notin stale
             /\ manifest' \in {manifest, SectionOf(p)}
       /\ excused' = IF r.file = Absent THEN excused ELSE excused \cup {r.file.id}
       /\ Answer(p)
       /\ UNCHANGED <<disk, source, made, given, kept, filesMade, edits>>

-----------------------------------------------------------------------------
(* The user.                                                               *)

UserRemoves(q) ==
    /\ disk[q] # Absent
    /\ disk' = [disk EXCEPT ![q] = Absent]
    /\ UNCHANGED filesMade

UserReplaces(q) ==
    /\ HasFresh
    /\ disk' = [disk EXCEPT ![q] = [id |-> Fresh, data |-> NoOne]]
    /\ filesMade' = Fresh

UserChanges(q) ==
    /\ disk[q] # Absent /\ disk[q].data # NoOne
    /\ disk' = [disk EXCEPT ![q].data = NoOne]
    /\ UNCHANGED filesMade

UserEdits(q) ==
    /\ edits < MaxEdits
    /\ edits' = edits + 1
    /\ UserRemoves(q) \/ UserReplaces(q) \/ UserChanges(q)
    /\ UNCHANGED <<source, manifest, stale, proc, made, given, kept, excused>>

UserWritesSource(d) ==
    /\ edits < MaxEdits
    /\ edits' = edits + 1
    /\ source' = d /\ d # source
    /\ UNCHANGED <<disk, manifest, stale, proc, made, given, kept, excused, filesMade>>

Request(p) ==
    \/ Reserve(p) \/ FailWriting(p) \/ CopyPreview(p) \/ CheckPreview(p)
    \/ PublishFile(p) \/ CheckPublished(p) \/ MarkCreated(p)
    \/ RemovePublished(p) \/ Discard(p) \/ ProcessEnds(p)

OwnershipNext ==
    \/ \E p \in Procs, t \in Tokens, q \in Paths, d \in Digests :
         StartExport(p, t, q, d) \/ StartIndex(p, t, q, d)
    \/ \E p \in Procs, t, pt \in Tokens, q, pq \in Paths : StartPublish(p, t, q, pt, pq)
    \/ \E p \in Procs : proc[p] # Idle /\ Request(p)
    \/ \E t \in Tokens, stuck \in SUBSET Paths :
         Cleanup(t, stuck) \/ CrashInCleanup(t, stuck)
    \/ \E t \in Tokens : Release(t)
    \/ \E q \in Paths : UserEdits(q)
    \/ \E d \in Digests : UserWritesSource(d)

OwnershipSpec == OwnershipInit /\ [][OwnershipNext]_ownershipVars

-----------------------------------------------------------------------------
Files == [id : FileIds, data : Digests \cup {NoOne}]
Kinds == {"pdf", "xlsx"}
RecordOf(created) == [state : {"reserved"}, kind : Kinds]
                     \cup [state : {"created"}, kind : Kinds, file : created]
Steps == {"reserve", "copy", "copied", "staged", "published", "checked", "remove", "discard"}
RequestOf(created) ==
    [at : Steps, kind : Kinds, token : Tokens, path : Paths, data : Digests \cup {NoOne},
     want : Digests \cup {NoOne}, from : [path : Paths, file : created] \cup {Absent},
     file : created \cup {Absent}]

\* What is absent is neither a file nor a record.
ASSUME AbsentAssumption ==
    Absent \notin Files \cup RecordOf(Files) \cup [path : Paths, file : Files]
ASSUME BoundsAreNumbers == MaxFiles \in Nat /\ MaxEdits \in Nat

\* Files, manifests and requests have their types.
OwnershipTypeOK ==
    /\ disk \in [Paths -> Files \cup {Absent}]
    /\ source \in Digests
    /\ manifest \in [Tokens -> [Paths -> RecordOf(made) \cup {Absent}]]
    /\ stale \subseteq Tokens
    /\ proc \in [Procs -> RequestOf(made) \cup {Idle}]
    /\ made \subseteq Files
    /\ given \subseteq [file : made, token : Tokens, want : Digests \cup {NoOne}]
    /\ kept \subseteq FileIds /\ excused \subseteq FileIds
    /\ filesMade \in 0..MaxFiles /\ edits \in 0..MaxEdits

\* The engine takes a file from its path only when it created that file, nobody
\* has changed it since, and its token was not released: neither a cleanup nor
\* a failed request nor a publication touches anything else.
OnlyOwnFilesGo ==
    [][\A q \in Paths :
         disk[q] # Absent /\ disk'[q] # disk[q] /\ edits' = edits
           => disk[q] \in made /\ disk[q].id \notin kept]_ownershipVars

\* A file that was reported to the client stays in the manifest of its token
\* until it is released or gone, so a cleanup finds it whatever other requests
\* of the token did meanwhile.
ReportedIsRegistered ==
    \A g \in given : g.file.id \notin kept =>
      \A q \in Paths : disk[q] = g.file =>
        IsCreated(manifest[g.token][q]) /\ manifest[g.token][q].file = g.file

\* What was reported was made from the source, or the preview, that was asked
\* for, although both may be replaced at any moment.
ReportedIsReviewed == \A g \in given : g.file.data = g.want

\* A request that does not report its file takes it away again, unless its
\* process ended or the file was in use.
FailureLeavesNothing ==
    \A q \in Paths : disk[q] # Absent /\ disk[q] \in made =>
      \/ disk[q] \in {g.file : g \in given}
      \/ disk[q].id \in excused
      \/ \E p \in Procs : proc[p] # Idle /\ proc[p].file = disk[q]

\* The registry of exported files agrees with the disk and with what the client
\* was told, whatever requests, crashes and edits interleave.
OwnershipKept ==
    /\ OwnershipTypeOK
    /\ ReportedIsRegistered
    /\ ReportedIsReviewed
    /\ FailureLeavesNothing
=============================================================================
