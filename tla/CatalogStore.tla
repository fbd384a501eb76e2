---------------------------- MODULE CatalogStore ----------------------------
(***************************************************************************)
(* CatalogStore of the Visual Studio extension: the attribute catalogs     *)
(* that completion reads.  Current and SetFiles hold the lock, so one call *)
(* runs at a time, but the generator (and a Clean) change the files        *)
(* between any two file operations of a call.                              *)
(***************************************************************************)
EXTENDS Naturals, FiniteSets, Sequences, SequencesExt

CONSTANTS
  Files,      (* catalog files                                             *)
  Catalogs,   (* what a generator run can write into a file                *)
  Empty,      (* AttributeCatalog.Empty                                    *)
  MaxClock    (* bound: file system writes                                 *)

ASSUME CatalogAssumption ==
  /\ IsFiniteSet(Files)
  /\ Empty \notin Catalogs
  /\ MaxClock \in Nat

\* The lists SetFiles can be left with: it drops repeated names.
FileLists == {s \in BoundedSeq(Files, Cardinality(Files)) : IsInjective(s)}

VARIABLES
  disk,    (* disk[f]: write time (0: no file), contents, open for writing *)
  clock,   (* the last write time handed out                               *)
  files,   (* _files                                                       *)
  loaded,  (* _loaded[f]: (Written, Catalog), Written 0 when not loaded    *)
  merged,  (* _merged: the catalogs before the built-in one, in order      *)
  call     (* the call that holds the lock                                 *)

vars == <<disk, clock, files, loaded, merged, call>>

NoCall == [step |-> "idle", todo |-> <<>>, acc |-> <<>>, written |-> 0, quiet |-> FALSE]
Steps == {"idle", "returned", "check", "stamp", "read"}
Entries == [file : Files, catalog : Catalogs \cup {Empty}]

TypeOK ==
  /\ disk \in [Files -> [time : Nat, catalog : Catalogs \cup {Empty}, open : BOOLEAN]]
  /\ clock \in 0..MaxClock
  /\ files \in FileLists
  /\ loaded \in [Files -> [written : Nat, catalog : Catalogs \cup {Empty}]]
  /\ merged \in Seq(Entries)
  /\ call \in [step : Steps, todo : Seq(Files), acc : Seq(Entries), written : Nat,
               quiet : BOOLEAN]

Init ==
  /\ disk = [f \in Files |-> [time |-> 0, catalog |-> Empty, open |-> FALSE]]
  /\ clock = 0
  /\ files = <<>>
  /\ loaded = [f \in Files |-> [written |-> 0, catalog |-> Empty]]
  /\ merged = <<>>
  /\ call = NoCall

Idle == call.step \in {"idle", "returned"}
Stamp(f) == disk[f].time

-----------------------------------------------------------------------------
(***************************************************************************)
(* The file system.  write_if_changed truncates the file, writes its text  *)
(* and closes it; a kill closes it as it is.  call.quiet records whether   *)
(* anything was written since the call began.                              *)
(***************************************************************************)

Disturb == call' = [call EXCEPT !.quiet = FALSE]

OpenCatalog(f) ==
  /\ clock < MaxClock /\ ~disk[f].open
  /\ clock' = clock + 1
  /\ disk' = [disk EXCEPT ![f] = [time |-> clock', catalog |-> Empty, open |-> TRUE]]
  /\ Disturb
  /\ UNCHANGED <<files, loaded, merged>>

FlushCatalog(f, c) ==
  /\ clock < MaxClock /\ disk[f].open /\ disk[f].catalog = Empty
  /\ clock' = clock + 1
  /\ disk' = [disk EXCEPT ![f] = [time |-> clock', catalog |-> c, open |-> TRUE]]
  /\ Disturb
  /\ UNCHANGED <<files, loaded, merged>>

CloseCatalog(f) ==
  /\ disk[f].open
  /\ disk' = [disk EXCEPT ![f].open = FALSE]
  /\ Disturb
  /\ UNCHANGED <<clock, files, loaded, merged>>

DeleteCatalog(f) ==
  /\ ~disk[f].open /\ disk[f].time # 0
  /\ disk' = [disk EXCEPT ![f] = [time |-> 0, catalog |-> Empty, open |-> FALSE]]
  /\ Disturb
  /\ UNCHANGED <<clock, files, loaded, merged>>

-----------------------------------------------------------------------------
(***************************************************************************)
(* The calls.                                                              *)
(***************************************************************************)

RebuildFrom(list, quiet) ==
  [step |-> "stamp", todo |-> list, acc |-> <<>>, written |-> 0, quiet |-> quiet]

Returned(quiet) ==
  [step |-> "returned", todo |-> <<>>, acc |-> <<>>, written |-> 0, quiet |-> quiet]

\* Mutant: the new list is stored, the merged catalog is not rebuilt.
SetFiles_NoRebuild(list) ==
  /\ Idle
  /\ files' = list
  /\ call' = Returned(FALSE)
  /\ UNCHANGED <<disk, clock, loaded, merged>>

SetFiles(list) ==
  /\ Idle
  /\ files' = list
  /\ call' = RebuildFrom(list, TRUE)
  /\ UNCHANGED <<disk, clock, loaded, merged>>

\* Mutant: the merged catalog is returned as it is.
Current_Unchecked ==
  /\ Idle
  /\ call' = Returned(TRUE)
  /\ UNCHANGED <<disk, clock, files, loaded, merged>>

Current ==
  /\ Idle
  /\ call' = [step |-> "check", todo |-> files, acc |-> <<>>, written |-> 0, quiet |-> TRUE]
  /\ UNCHANGED <<disk, clock, files, loaded, merged>>

\* _files.Any: the first file whose time is not the loaded one starts Rebuild.
CheckFile ==
  /\ call.step = "check"
  /\ call' = IF call.todo = <<>> THEN Returned(call.quiet)
             ELSE IF Stamp(Head(call.todo)) # loaded[Head(call.todo)].written
                  THEN RebuildFrom(files, call.quiet)
                  ELSE [call EXCEPT !.todo = Tail(@)]
  /\ UNCHANGED <<disk, clock, files, loaded, merged>>

Take(f, entry) == [call EXCEPT !.step = "stamp", !.todo = Tail(@),
                               !.acc = Append(@, [file |-> f, catalog |-> entry])]

\* Rebuild, one file: a missing file is passed over, an unchanged one is taken
\* from _loaded, any other is read with the time just seen.
StampFile ==
  LET f == Head(call.todo) IN
  /\ call.step = "stamp" /\ call.todo # <<>>
  /\ call' = IF Stamp(f) = 0 THEN [call EXCEPT !.todo = Tail(@)]
             ELSE IF loaded[f].written = Stamp(f) THEN Take(f, loaded[f].catalog)
             ELSE [call EXCEPT !.step = "read", !.written = Stamp(f)]
  /\ UNCHANGED <<disk, clock, files, loaded, merged>>

\* Read: a file that is open for writing gives Empty (IOException), a file
\* that vanished since its time was taken too.
Read(f) == IF disk[f].open THEN Empty ELSE disk[f].catalog

\* Mutant: a file that could not be read keeps its old text.
ReadFile_KeepOld ==
  LET f == Head(call.todo)
      c == IF disk[f].open THEN loaded[f].catalog ELSE disk[f].catalog IN
  /\ call.step = "read"
  /\ loaded' = [loaded EXCEPT ![f] = [written |-> call.written, catalog |-> c]]
  /\ call' = Take(f, c)
  /\ UNCHANGED <<disk, clock, files, merged>>

ReadFile ==
  LET f == Head(call.todo) IN
  /\ call.step = "read"
  /\ loaded' = [loaded EXCEPT ![f] = [written |-> call.written, catalog |-> Read(f)]]
  /\ call' = Take(f, Read(f))
  /\ UNCHANGED <<disk, clock, files, merged>>

MergeAll ==
  /\ call.step = "stamp" /\ call.todo = <<>>
  /\ merged' = call.acc
  /\ call' = Returned(call.quiet)
  /\ UNCHANGED <<disk, clock, files, loaded>>

Next ==
  \/ \E f \in Files :
       \/ OpenCatalog(f) \/ CloseCatalog(f) \/ DeleteCatalog(f)
       \/ \E c \in Catalogs : FlushCatalog(f, c)
  \/ \E list \in FileLists : SetFiles(list)
  \/ Current \/ CheckFile \/ StampFile \/ ReadFile \/ MergeAll

Spec == Init /\ [][Next]_vars

-----------------------------------------------------------------------------
(***************************************************************************)
(* Properties.                                                             *)
(***************************************************************************)

FilesOf(entries) == {entries[i].file : i \in DOMAIN entries}
InListOrder(entries) ==
  \A i, j \in DOMAIN entries : i < j =>
    \E k, l \in DOMAIN files : k < l /\ entries[i].file = files[k] /\ entries[j].file = files[l]

\* A cached entry whose time is the file's time never holds the text of an
\* earlier write, although the generator may write between the moment Rebuild
\* takes the time and the moment it reads.
CacheHonest ==
  \A f \in Files :
    /\ loaded[f].written = disk[f].time
    /\ loaded[f].catalog # Empty
    => loaded[f].catalog = disk[f].catalog

\* What a call returned when nothing was written meanwhile: the listed files
\* that exist and no other, in the order of the list, each with its present
\* text, or with nothing when it could not be read.
AnswersCurrent ==
  call.step = "returned" /\ call.quiet =>
    /\ FilesOf(merged) = {f \in Range(files) : disk[f].time # 0}
    /\ InListOrder(merged)
    /\ \A i \in DOMAIN merged : merged[i].catalog \in {disk[merged[i].file].catalog, Empty}

\* "Without this, attributes of the previous solution are suggested": between
\* calls only files of the current list contribute to the merged catalog.
OnlyListedFiles ==
  Idle => FilesOf(merged) \subseteq Range(files)

\* _loaded and _merged hold nothing old and nothing foreign, whatever the
\* generator does to the files.
StoreInv == TypeOK /\ CacheHonest /\ OnlyListedFiles

\* "If the generator is writing it, it is read again on the next request": a
\* request that meets only closed files returns their text.
NextRequestRereads ==
  /\ call.step = "returned" /\ call.quiet
  /\ \A f \in Files : ~disk[f].open
  => \A i \in DOMAIN merged : merged[i].catalog = disk[merged[i].file].catalog
=============================================================================
