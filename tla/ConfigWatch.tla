---------------------------- MODULE ConfigWatch -----------------------------
(***************************************************************************)
(* Hot reload: the watcher thread between the operator's edits and signals *)
(* and the configuration the other threads read.                           *)
(*                                                                         *)
(*   microwaf/src/config.rs      ensure_config_files, LiveConfig::load,    *)
(*                               try_reload, setup_sighup, watch_loop      *)
(*   mw-core/src/config.rs       parse_rules_yaml, compile_ruleset         *)
(*   mw-core/src/rule.rs         RuleSet::new                              *)
(*   microwaf/src/cli/daemon.rs  first load, start of the watcher          *)
(*                                                                         *)
(* A file holds a version, an invalid text ("bad": not YAML, or a rule     *)
(* that does not compile by itself), or is missing (None).  A valid rule   *)
(* file is known by the ids of its rules.  The first load is over when a   *)
(* behaviour begins.  Every step that lists, reads or writes files         *)
(* interleaves with the operator's edits.  The mode of a reloaded          *)
(* daemon.yaml is overwritten with the one chosen at start-up and is left  *)
(* out.                                                                    *)
(***************************************************************************)
EXTENDS Naturals, Sequences, FiniteSets

CONSTANTS Versions,    \* contents the operator writes
          None,        \* a missing file
          Ids,         \* Ids[content]: ids of the rules in a rule file
          MaxRules,    \* MAX_RULES
          IoMayFail,   \* may reading or writing a file fail?
          WatchMayFail, \* may the signal handler, its thread or the watch fail?
          MaxUnseen,   \* bound: files taken for missing because of an I/O error
          MaxEdits,    \* bound: edits
          MaxSignals   \* bound: SIGHUPs

VARIABLES disk,      \* the files
          live,      \* what each file contributes to the LiveConfig in the ArcSwap
          pc,        \* step of the watcher thread
          todo,      \* files the step has yet to look at
          loaded,    \* the parts of the LiveConfig read so far
          dirty,     \* inotify events that the debouncer holds back
          queue,     \* messages in the watcher's channel
          handler,   \* of SIGHUP: "none", "flag" (sets the flag), "bridged" (which a thread reads)
          hook,      \* the flag of the signal handler
          sighup,    \* SIGHUP_FLAG
          edits, signals, unseen,  \* how many there were
          since,     \* history: contents of each file since the load began, None also for
                     \* a file that appeared to be missing
          asked,     \* history: a SIGHUP no load has begun after
          missed     \* history: no load began since an edit that came before the
                     \* watch or since a load that failed or took a file for missing

disks == <<disk, dirty, since>>
flags == <<handler, hook, sighup, asked>>
load == <<pc, todo, loaded>>
bounds == <<edits, signals, unseen>>
vars == <<disks, live, load, queue, flags, bounds, missed>>

RuleFiles == {"00-baseline", "10-extra"}
Files == {"daemon", "sets"} \cup RuleFiles

ASSUME ConfigWatchAssumption ==
  /\ {None, "bad", "default"} \cap Versions = {} /\ None \notin {"bad", "default"}
  /\ \A content \in Versions \cup {"default"} : Cardinality(Ids[content]) <= MaxRules
  /\ IoMayFail \in BOOLEAN /\ WatchMayFail \in BOOLEAN
  /\ MaxEdits \in Nat /\ MaxSignals \in Nat /\ MaxUnseen \in Nat

\* Defaults for a missing daemon.yaml or sets.yaml; a missing rule file has no rules.
Value(f, content) == IF f \notin RuleFiles /\ content = None THEN "default" ELSE content

\* compile_ruleset() and RuleSet::new: what valid rule files make together.
Compiles(files) ==
  LET present == {f \in RuleFiles : files[f] # None}
      Of(f) == Ids[files[f]]
  IN /\ \A f, g \in present : f # g => Of(f) \cap Of(g) = {}
     /\ Cardinality(UNION {Of(f) : f \in present}) <= MaxRules

Current == [f \in Files |-> Value(f, disk[f])]

Nothing == [f \in Files |-> None]

Init ==
  /\ disk = [f \in Files |-> IF f = "10-extra" THEN None ELSE "default"]
  /\ live = Current
  /\ pc = "start" /\ todo = <<>> /\ loaded = Nothing
  /\ dirty = FALSE /\ queue = 0
  /\ handler = "none" /\ hook = FALSE /\ sighup = FALSE
  /\ edits = 0 /\ signals = 0 /\ unseen = 0
  /\ since = [f \in Files |-> {disk[f]}] /\ asked = FALSE /\ missed = FALSE

(***************************************************************************)
(* The file system and the debounced watcher                               *)
(***************************************************************************)

\* Events reach the watcher thread from spawn_signal() until its channel is closed.
Watching == pc \notin {"start", "spawn", "gone"}

\* Fault: the filter does not ignore the examples.
WatchedAll(f) == Watching

\* The filter of the watch: everything but `.example' files.
Watched(f) == Watching /\ f # "example"

\* A file gets a new content.
Write(f, content) ==
  /\ disk' = [disk EXCEPT ![f] = content]
  /\ since' = [since EXCEPT ![f] = @ \cup {content}]
  /\ dirty' = (dirty \/ Watched(f))

NoRuleFile(files) == \A f \in RuleFiles : files[f] = None

Edit(f, content) ==
  /\ edits < MaxEdits
  /\ content # disk[f]
  /\ Write(f, content)
  /\ edits' = edits + 1
  /\ missed' = (missed \/ ~Watching)
  /\ UNCHANGED <<live, load, queue, flags, signals, unseen>>

\* 200 ms after the last event the debouncer sends one message.
Debounce ==
  /\ dirty
  /\ dirty' = FALSE /\ queue' = queue + 1
  /\ UNCHANGED <<disk, since, live, load, flags, bounds, missed>>

(***************************************************************************)
(* SIGHUP: the handler sets a flag, the bridge thread moves it.  Without a *)
(* handler the signal ends the process.                                    *)
(***************************************************************************)
Signal ==
  /\ signals < MaxSignals /\ handler # "none"
  /\ hook' = TRUE /\ asked' = TRUE /\ signals' = signals + 1
  /\ UNCHANGED <<disks, live, load, queue, handler, sighup, edits, unseen, missed>>

Bridge ==
  /\ hook /\ handler = "bridged"
  /\ hook' = FALSE /\ sighup' = TRUE
  /\ UNCHANGED <<disks, live, load, queue, handler, asked, bounds, missed>>

(***************************************************************************)
(* The watcher thread                                                      *)
(***************************************************************************)
\* setup_sighup(): a handler that cannot be installed is logged, a bridge thread that
\* cannot be started is not noticed; the watcher goes on.
SetupSighup ==
  /\ pc = "start" /\ pc' = "spawn"
  /\ handler' \in {"bridged"} \cup (IF WatchMayFail THEN {"none", "flag"} ELSE {})
  /\ UNCHANGED <<disks, live, todo, loaded, queue, hook, sighup, asked, bounds, missed>>

StartWatch ==
  /\ pc = "spawn" /\ pc' = "wait"
  /\ UNCHANGED <<disks, live, todo, loaded, queue, flags, bounds, missed>>

\* spawn_signal() fails, or its thread ends and the channel is closed: the watcher
\* returns, without another look at SIGHUP_FLAG.
WatchEnds ==
  /\ WatchMayFail
  /\ pc = "spawn" \/ (pc = "wait" /\ queue = 0)
  /\ pc' = "gone"
  /\ UNCHANGED <<disks, live, todo, loaded, queue, flags, bounds, missed>>

\* A message or SIGHUP_FLAG starts a load, which first rewrites the examples.
Wake ==
  /\ pc = "wait" /\ (queue > 0 \/ sighup)
  /\ queue' = IF queue > 0 THEN queue - 1 ELSE 0
  /\ sighup' = FALSE /\ asked' = hook /\ missed' = FALSE
  /\ pc' = "seed" /\ todo' = <<"daemon", "sets", "00-baseline">>
  /\ dirty' = (dirty \/ Watched("example"))
  /\ since' = [f \in Files |-> {disk[f]}]
  /\ UNCHANGED <<disk, live, loaded, handler, hook, bounds>>

\* Fault: the baseline is seeded beside other rule files.
ToSeedEach(f) == disk[f] = None

\* seed_if_missing(); the baseline only if rules.d has no YAML file at all.
ToSeed(f) == disk[f] = None /\ (f = "00-baseline" => NoRuleFile(disk))

CheckSeed ==
  /\ pc = "seed" /\ todo # <<>>
  /\ IF ToSeed(Head(todo)) THEN pc' = "write" /\ UNCHANGED todo
                            ELSE todo' = Tail(todo) /\ UNCHANGED pc
  /\ UNCHANGED <<disks, live, loaded, queue, flags, bounds, missed>>

\* An I/O error that exists(), read_dir().ok() or an entry of read_dir() hides: the
\* files are taken for missing.
Overlook(files) ==
  /\ IoMayFail /\ unseen < MaxUnseen /\ unseen' = unseen + 1
  /\ since' = [f \in Files |-> IF f \in files THEN since[f] \cup {None} ELSE since[f]]
  /\ UNCHANGED <<disk, dirty, live, queue, flags, edits, signals>>

\* The files that have to be missing before f is seeded.
Concerned(f) == IF f = "00-baseline" THEN RuleFiles ELSE {f}

OverlookSeed ==
  /\ pc = "seed" /\ todo # <<>> /\ pc' = "write"
  /\ Overlook(Concerned(Head(todo)))
  /\ UNCHANGED <<todo, loaded, missed>>

WriteSeed ==
  /\ pc = "write"
  /\ Write(Head(todo), "default")
  /\ pc' = "seed" /\ todo' = Tail(todo)
  /\ UNCHANGED <<live, loaded, queue, flags, bounds, missed>>

\* The load is over and its locals are gone.
Done == pc' = "wait" /\ todo' = <<>> /\ loaded' = Nothing

\* Reading a file; an invalid one rejects the reload.
Read(f, step, rest) ==
  /\ IF disk[f] = "bad" THEN Done
     ELSE pc' = step /\ todo' = rest /\ loaded' = [loaded EXCEPT ![f] = Current[f]]
  /\ UNCHANGED <<disks, live, queue, flags, bounds, missed>>

\* Fault: sets.yaml is read once and kept.
ReadSetsOnce ==
  /\ pc = "sets" /\ pc' = "list"
  /\ loaded' = [loaded EXCEPT !["sets"] = live["sets"]]
  /\ UNCHANGED <<disks, live, todo, queue, flags, bounds, missed>>

ReadDaemon == pc = "seed" /\ todo = <<>> /\ Read("daemon", "sets", <<>>)
ReadSets == pc = "sets" /\ Read("sets", "list", <<>>)

\* load_daemon() and load_sets() of a file that exists() does not see.
OverlookPart(f, step) ==
  /\ pc' = step /\ todo' = <<>> /\ loaded' = [loaded EXCEPT ![f] = Value(f, None)]
  /\ Overlook({f}) /\ missed' = TRUE

OverlookDaemon == pc = "seed" /\ todo = <<>> /\ OverlookPart("daemon", "sets")
OverlookSets == pc = "sets" /\ OverlookPart("sets", "list")

\* load_rules(): read_dir() and the sort.
Listed(files) ==
  LET Entry(f) == IF f \in files /\ disk[f] # None THEN <<f>> ELSE <<>>
  IN Entry("00-baseline") \o Entry("10-extra")

ListRules ==
  /\ pc = "list" /\ pc' = "rules" /\ todo' = Listed(RuleFiles)
  /\ UNCHANGED <<disks, live, loaded, queue, flags, bounds, missed>>

OverlookRules ==
  /\ pc = "list" /\ pc' = "rules"
  /\ \E files \in SUBSET RuleFiles : todo' = Listed(RuleFiles \ files) /\ Overlook(files)
  /\ missed' = TRUE
  /\ UNCHANGED loaded

ReadRules ==
  /\ pc = "rules" /\ todo # <<>> /\ disk[Head(todo)] # None
  /\ Read(Head(todo), "rules", Tail(todo))

\* A listed file is gone: read_to_string() fails and the reload is rejected.
RuleFileGone ==
  /\ pc = "rules" /\ todo # <<>> /\ disk[Head(todo)] = None
  /\ Done
  /\ UNCHANGED <<disks, live, queue, flags, bounds, missed>>

Compile ==
  /\ pc = "rules" /\ todo = <<>>
  /\ IF Compiles(loaded) THEN pc' = "swap" /\ UNCHANGED <<todo, loaded>> ELSE Done
  /\ UNCHANGED <<disks, live, queue, flags, bounds, missed>>

\* Fault: changes signalled during the load are taken as done.
InstallDrains ==
  /\ pc = "swap" /\ Done
  /\ live' = loaded /\ queue' = 0
  /\ UNCHANGED <<disks, flags, bounds, missed>>

\* Fault: SIGHUP_FLAG is cleared after the load.
InstallClearsFlag ==
  /\ pc = "swap" /\ Done
  /\ live' = loaded /\ sighup' = FALSE
  /\ UNCHANGED <<disks, queue, handler, hook, asked, bounds, missed>>

\* swap_live()
Install ==
  /\ pc = "swap" /\ Done
  /\ live' = loaded
  /\ UNCHANGED <<disks, queue, flags, bounds, missed>>

\* An error that a step of the load returns is logged and the thread goes on waiting.
LoadFails ==
  /\ IoMayFail /\ pc \in {"seed", "write", "sets", "list", "rules"}
  /\ Done /\ missed' = TRUE
  /\ UNCHANGED <<disks, live, queue, flags, bounds>>

Unseen == OverlookSeed \/ OverlookDaemon \/ OverlookSets \/ OverlookRules

Watcher == \/ SetupSighup \/ StartWatch \/ Wake \/ CheckSeed \/ WriteSeed
           \/ ReadDaemon \/ ReadSets \/ ListRules \/ ReadRules \/ RuleFileGone \/ Compile
           \/ Install \/ LoadFails \/ Unseen

Next ==
  \/ Watcher \/ WatchEnds \/ Debounce \/ Bridge \/ Signal
  \/ \E f \in Files, content \in Versions \cup {"default", "bad", None} : Edit(f, content)

\* The watcher, the debouncer and the bridge are threads that run or sleep for a
\* bounded time.  Nothing obliges the watch to fail.
Fairness == WF_vars(Watcher) /\ WF_vars(Debounce) /\ WF_vars(Bridge)

Spec == Init /\ [][Next]_vars /\ Fairness

-----------------------------------------------------------------------------
(***************************************************************************)
(* Properties                                                              *)
(***************************************************************************)

\* A reload installs, for every file, a content that the file had while it was
\* loaded (none, if an I/O error hid the file): nothing older, nothing invalid, no part
\* of a rejected load; and although the rule files are read one by one while the
\* operator moves rules between them, no two rules that become live share an id
\* (LiveConfig::load, compile_ruleset, try_reload).
InstallsWhatWasThere ==
  [][live' # live =>
       /\ \A f \in Files : live'[f] \in {Value(f, c) : c \in since[f]} \ {"bad"}
       /\ Compiles(live')]_vars

\* A load writes defaults only where a file was, or because of an I/O error appeared
\* to be, missing during this load, and the baseline only if every rule file was:
\* what the operator left in place stays, and a baseline removed in favour of other
\* rules does not come back (ensure_config_files: "Live file must not be overwritten on
\* second ensure").
SeedsOnlyMissing ==
  [][pc = "write" /\ disk' # disk /\ edits' = edits =>
       \A f \in Concerned(Head(todo)) : None \in since[f]]_vars

Loadable == (\A f \in Files : disk[f] # "bad") /\ Compiles(disk)

\* Once the operator stops and the files are valid together, they are live for good,
\* whatever was edited or rejected during earlier loads, unless the last load met an
\* I/O error, which is not retried, the edit came before the watch, or the watch has
\* failed (watch_loop).
EditsBecomeLive ==
  <>[](~missed /\ Loadable /\ pc # "gone") => <>[](live = Current)

\* Nothing moves the flag of the handler to a load: the watcher has returned, or there
\* is no bridge thread.
Deaf == pc = "gone" \/ handler # "bridged"

\* A SIGHUP is followed by a load that begins after it, also if it arrives while a load
\* is under way or before the watch is set up, unless the watcher or the bridge thread
\* is gone (setup_sighup, watch_loop).
SighupServed == asked ~> (~asked \/ Deaf)

\* The loads stop when the edits, signals and errors do, although a load writes into
\* the directory it is triggered by (ensure_config_files, PathFilter).
ReloadsSettle == <>[](pc \in {"wait", "gone"})
=============================================================================
