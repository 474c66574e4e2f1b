---------------------------- MODULE ConfigProofs ----------------------------
(***************************************************************************)
(* What a reload installs and what it writes, for any contents, any number *)
(* of edits and signals, and edits between any two of its steps.           *)
(***************************************************************************)
EXTENDS ConfigWatch, TLAPS

(***************************************************************************)
(* The inductive invariant                                                 *)
(***************************************************************************)
Content == Versions \cup {"default", "bad", None}

TypeOK ==
  /\ disk \in [Files -> Content]
  /\ since \in [Files -> SUBSET Content]
  /\ loaded \in [Files -> Content]
  /\ todo \in Seq(Files)
  /\ pc \in {"start", "spawn", "gone", "wait", "seed", "write", "sets", "list", "rules", "swap"}

\* What is on disk was there since the load began.
OnDiskSince == \A f \in Files : disk[f] \in since[f]

\* The part of file f that was loaded is one that the file had, or appeared to have, since
\* the load began.
Fetched(f) == loaded[f] \in {Value(f, c) : c \in since[f]} \ {"bad"}

\* What each step of LiveConfig::load has fetched; a rule file that was not listed was
\* missing, one that is listed is still to come.
LoadSoFar ==
  /\ pc \in {"sets", "list", "rules", "swap"} => Fetched("daemon")
  /\ pc \in {"list", "rules", "swap"} => Fetched("sets")
  /\ pc \notin {"rules", "swap"} => \A f \in RuleFiles : loaded[f] = None
  /\ pc = "rules" => \A f \in RuleFiles : Fetched(f) \/ \E i \in DOMAIN todo : todo[i] = f
  /\ pc = "swap" => (\A f \in RuleFiles : Fetched(f)) /\ Compiles(loaded)

\* A default is about to be written only for a file that was missing, and the baseline
\* only if no rule file was there.
SeedsMissing ==
  pc = "write" =>
    todo # <<>> /\ \A f \in Concerned(Head(todo)) : None \in since[f]

Inv == TypeOK /\ OnDiskSince /\ LoadSoFar /\ SeedsMissing

(***************************************************************************)
(* Types                                                                   *)
(***************************************************************************)

\* The operations of the watcher and of the operator keep the types.
LEMMA TypeStep ==
  ASSUME TypeOK, SeedsMissing, [Next]_vars
  PROVE  TypeOK'
<1> USE DEF TypeOK
<1>0. /\ RuleFiles \subseteq Files /\ "default" \in Content /\ None \in Content
      /\ Nothing \in [Files -> Content]
      /\ \A f \in Files : Current[f] \in Content
  BY DEF RuleFiles, Files, Content, Nothing, Current, Value
<1>1. ASSUME NEW f \in Files, NEW c \in Content, Write(f, c)
      PROVE  disk' \in [Files -> Content] /\ since' \in [Files -> SUBSET Content]
  BY <1>1 DEF Write
<1>2. ASSUME Done
      PROVE  TypeOK' \/ disks' # disks
  BY <1>0, <1>2 DEF Done, disks
<1>3. ASSUME NEW f \in Files, NEW step \in {"sets", "list", "rules"}, NEW rest \in Seq(Files),
             Read(f, step, rest)
      PROVE  TypeOK'
  BY <1>0, <1>2, <1>3 DEF Read, disks
<1>4. CASE UNCHANGED vars
  BY <1>4 DEF vars, disks, load
<1>5. CASE \E f \in Files, content \in Versions \cup {"default", "bad", None} : Edit(f, content)
  BY <1>1, <1>5 DEF Edit, load, Content
<1>6. CASE Debounce \/ Bridge \/ Signal \/ SetupSighup \/ StartWatch \/ WatchEnds
  BY <1>6 DEF Debounce, Bridge, Signal, SetupSighup, StartWatch, WatchEnds, disks, load
<1>7. CASE Wake
  BY <1>7 DEF Wake, Files, RuleFiles
<1>8. CASE CheckSeed
  BY <1>8 DEF CheckSeed, disks
<1>9. CASE WriteSeed
  <2>1. Head(todo) \in Files /\ Tail(todo) \in Seq(Files)
    BY <1>9 DEF WriteSeed, SeedsMissing
  <2>2. QED
    BY <1>0, <1>1, <1>9, <2>1 DEF WriteSeed
<1>10. CASE ReadDaemon \/ ReadSets
  <2>1. "daemon" \in Files /\ "sets" \in Files /\ <<>> \in Seq(Files)
    BY DEF Files
  <2>2. QED
    BY <1>3, <1>10, <2>1 DEF ReadDaemon, ReadSets
<1>11. CASE ListRules
  BY <1>0, <1>11 DEF ListRules, Listed, disks, RuleFiles
<1>12. CASE ReadRules
  <2>1. Head(todo) \in Files /\ Tail(todo) \in Seq(Files)
    BY <1>12 DEF ReadRules
  <2>2. Read(Head(todo), "rules", Tail(todo))
    BY <1>12 DEF ReadRules
  <2>3. QED
    BY <1>3, <2>1, <2>2
<1>13. CASE RuleFileGone \/ Compile \/ Install \/ LoadFails
  <2>1. disks' = disks
    BY <1>13 DEF RuleFileGone, Compile, Install, LoadFails, disks
  <2>2. CASE Done
    BY <1>2, <2>1, <2>2
  <2>3. CASE ~Done
    BY <1>13, <2>1, <2>3 DEF RuleFileGone, Compile, Install, LoadFails, disks
  <2>4. QED
    BY <2>2, <2>3
<1>14. CASE Unseen
  <2>1. ASSUME NEW files, Overlook(files)
        PROVE  disk' \in [Files -> Content] /\ since' \in [Files -> SUBSET Content]
    BY <1>0, <2>1 DEF Overlook
  <2>2. CASE OverlookSeed
    BY <2>1, <2>2 DEF OverlookSeed
  <2>3. CASE OverlookDaemon \/ OverlookSets
    <3>1. \A f \in Files : Value(f, None) \in Content
      BY DEF Value, Content
    <3>2. "daemon" \in Files /\ "sets" \in Files
      BY DEF Files
    <3>3. PICK f \in Files, step \in {"sets", "list"} : OverlookPart(f, step)
      BY <2>3, <3>2 DEF OverlookDaemon, OverlookSets
    <3>4. loaded' \in [Files -> Content] /\ todo' \in Seq(Files)
      BY <3>1, <3>3 DEF OverlookPart
    <3>5. QED
      BY <2>1, <3>3, <3>4 DEF OverlookPart
  <2>4. CASE OverlookRules
    <3>1. todo' \in Seq(Files)
      BY <1>0, <2>4 DEF OverlookRules, Listed, RuleFiles
    <3>2. QED
      BY <2>1, <2>4, <3>1 DEF OverlookRules
  <2>5. QED
    BY <1>14, <2>2, <2>3, <2>4 DEF Unseen
<1>15. QED
  BY <1>4, <1>5, <1>6, <1>7, <1>8, <1>9, <1>10, <1>11, <1>12, <1>13, <1>14 DEF Next, Watcher

(***************************************************************************)
(* What the files held since the load began                                *)
(***************************************************************************)

\* The disk stays within the history, and only the start of a load shortens it.
LEMMA HistoryStep ==
  ASSUME TypeOK, OnDiskSince, SeedsMissing, [Next]_vars
  PROVE  /\ OnDiskSince'
         /\ Wake \/ \A f \in Files : since[f] \subseteq since'[f]
<1> USE DEF TypeOK, OnDiskSince
<1>1. ASSUME NEW f \in Files, NEW c \in Content, Write(f, c)
      PROVE  /\ OnDiskSince'
             /\ \A g \in Files : since[g] \subseteq since'[g]
  BY <1>1 DEF Write
<1>2. CASE UNCHANGED disks
  BY <1>2 DEF disks
<1>3. CASE \E f \in Files, content \in Versions \cup {"default", "bad", None} : Edit(f, content)
  BY <1>1, <1>3 DEF Edit, Content
<1>4. CASE Wake
  BY <1>4 DEF Wake
<1>5. CASE WriteSeed
  <2>1. Head(todo) \in Files /\ "default" \in Content
    BY <1>5 DEF WriteSeed, SeedsMissing, Content
  <2>2. QED
    BY <1>1, <1>5, <2>1 DEF WriteSeed
<1>6. CASE Debounce
  BY <1>6 DEF Debounce
<1>7. CASE \/ UNCHANGED vars \/ Bridge \/ Signal \/ SetupSighup \/ StartWatch \/ WatchEnds \/ CheckSeed
           \/ ReadDaemon \/ ReadSets \/ ListRules \/ ReadRules \/ RuleFileGone \/ Compile
           \/ Install \/ LoadFails
  <2>1. UNCHANGED disks
    BY <1>7 DEF vars, Bridge, Signal, SetupSighup, StartWatch, WatchEnds, CheckSeed, ReadDaemon,
                ReadSets, ListRules, ReadRules, RuleFileGone, Compile, Install, LoadFails, Read
  <2>2. QED
    BY <1>2, <2>1
<1>8. CASE Unseen
  <2>1. PICK files : Overlook(files)
    BY <1>8 DEF Unseen, OverlookSeed, OverlookDaemon, OverlookSets, OverlookPart, OverlookRules
  <2>2. QED
    BY <2>1 DEF Overlook
<1>9. QED
  BY <1>3, <1>4, <1>5, <1>6, <1>7, <1>8 DEF Next, Watcher

\* seed_if_missing() decides on what it sees, and the history keeps what it saw or failed
\* to see.
LEMMA SeedStep ==
  ASSUME Inv, [Next]_vars
  PROVE  SeedsMissing'
<1> USE DEF Inv
<1>1. SUFFICES ASSUME pc' = "write" PROVE SeedsMissing'
  BY DEF SeedsMissing
<1>2. ~Wake
  BY <1>1 DEF Wake
<1>3. \A f \in Files : since[f] \subseteq since'[f]
  BY <1>2, HistoryStep
<1>4. \A f \in Files : Concerned(f) \subseteq Files
  BY DEF Concerned, RuleFiles, Files
<1>5. CASE pc = "write" /\ todo' = todo
  <2>1. Head(todo) \in Files
    BY <1>5 DEF SeedsMissing, TypeOK
  <2>2. QED
    BY <1>3, <1>4, <1>5, <2>1 DEF SeedsMissing
<1>6. CASE CheckSeed /\ pc = "seed"
  <2>1. todo # <<>> /\ todo' = todo /\ ToSeed(Head(todo)) /\ Head(todo) \in Files
    BY <1>1, <1>6 DEF CheckSeed, TypeOK
  <2>2. \A f \in Concerned(Head(todo)) : f \in Files /\ disk[f] = None
    BY <1>4, <2>1 DEF ToSeed, NoRuleFile, Concerned
  <2>3. QED
    BY <1>3, <2>1, <2>2 DEF SeedsMissing, OnDiskSince
<1>7. CASE OverlookSeed
  <2>1. todo # <<>> /\ todo' = todo /\ Overlook(Concerned(Head(todo))) /\ Head(todo) \in Files
    BY <1>7 DEF OverlookSeed, TypeOK
  <2>2. \A f \in Concerned(Head(todo)) : None \in since'[f]
    BY <1>4, <2>1 DEF Overlook
  <2>3. QED
    BY <2>1, <2>2 DEF SeedsMissing
<1>8. (pc = "write" /\ todo' = todo) \/ (CheckSeed /\ pc = "seed") \/ OverlookSeed
  <2> USE <1>1 DEF Done, Read
  <2>1. CASE UNCHANGED vars \/ Bridge \/ Signal \/ Debounce
    BY <2>1 DEF vars, load, Bridge, Signal, Debounce
  <2>2. CASE \E f \in Files, content \in Versions \cup {"default", "bad", None} : Edit(f, content)
    BY <2>2 DEF Edit, load
  <2>3. CASE Watcher \/ WatchEnds
    BY <2>3 DEF Watcher, SetupSighup, StartWatch, WatchEnds, Wake, CheckSeed, WriteSeed, ReadDaemon,
                ReadSets, ListRules, ReadRules, RuleFileGone, Compile, Install, LoadFails, Unseen,
                OverlookDaemon, OverlookSets, OverlookPart, OverlookRules
  <2>4. QED
    BY <2>1, <2>2, <2>3 DEF Next
<1>9. QED
  BY <1>5, <1>6, <1>7, <1>8

(***************************************************************************)
(* What a load has fetched                                                 *)
(***************************************************************************)

\* A step that leaves the load alone while the history grows keeps what was fetched.
LEMMA LoadKept ==
  ASSUME Inv, UNCHANGED load, \A f \in Files : since[f] \subseteq since'[f]
  PROVE  LoadSoFar'
<1>1. \A f \in Files : Fetched(f) => Fetched(f)'
  BY DEF Fetched, load, Value
<1>2. "daemon" \in Files /\ "sets" \in Files /\ RuleFiles \subseteq Files
  BY DEF Files, RuleFiles
<1>3. pc' = pc /\ todo' = todo /\ loaded' = loaded
  BY DEF load
<1>4. Compiles(loaded) => Compiles(loaded)'
  BY <1>3
<1>5. QED
  BY <1>1, <1>2, <1>3, <1>4 DEF Inv, LoadSoFar

\* After a load, rejected or installed, nothing of it is left.
LEMMA DoneKeepsNothing ==
  ASSUME Done
  PROVE  LoadSoFar'
BY DEF Done, LoadSoFar, Nothing, RuleFiles, Files

\* What Read takes from a valid file is a content the file had since the load began.
LEMMA ReadFetches ==
  ASSUME Inv, NEW f \in Files, disk[f] # "bad", disks' = disks,
         loaded' = [loaded EXCEPT ![f] = Current[f]]
  PROVE  /\ Fetched(f)'
         /\ \A g \in Files \ {f} : loaded'[g] = loaded[g] /\ (Fetched(g) => Fetched(g)')
<1>1. since' = since /\ disk' = disk
  BY DEF disks
<1>2. disk[f] \in since[f] /\ Current[f] = Value(f, disk[f])
  BY DEF Inv, OnDiskSince, Current
<1>3. Value(f, disk[f]) # "bad"
  BY DEF Value
<1>4. loaded'[f] = Current[f] /\ \A g \in Files \ {f} : loaded'[g] = loaded[g]
  BY DEF Inv, TypeOK
<1>5. Fetched(f)'
  BY <1>1, <1>2, <1>3, <1>4 DEF Fetched, Value
<1>6. \A g \in Files \ {f} : Fetched(g) => Fetched(g)'
  BY <1>1, <1>4 DEF Fetched, Value
<1>7. QED
  BY <1>4, <1>5, <1>6

\* A file that appears to be missing contributes the default, which the history has.
LEMMA OverlookFetches ==
  ASSUME Inv, NEW f \in Files, Overlook({f}), loaded' = [loaded EXCEPT ![f] = Value(f, None)]
  PROVE  /\ Fetched(f)'
         /\ \A g \in Files \ {f} : loaded'[g] = loaded[g] /\ (Fetched(g) => Fetched(g)')
<1>1. since'[f] = since[f] \cup {None} /\ \A g \in Files \ {f} : since'[g] = since[g]
  BY DEF Overlook
<1>2. loaded'[f] = Value(f, None) /\ \A g \in Files \ {f} : loaded'[g] = loaded[g]
  BY DEF Inv, TypeOK
<1>3. Value(f, None) # "bad"
  BY ConfigWatchAssumption DEF Value
<1>4. Fetched(f)'
  BY <1>1, <1>2, <1>3 DEF Fetched, Value
<1>5. \A g \in Files \ {f} : Fetched(g) => Fetched(g)'
  BY <1>1, <1>2 DEF Fetched, Value
<1>6. QED
  BY <1>2, <1>4, <1>5

\* Every rule file that is neither listed nor overlooked is missing.
LEMMA ListedRules ==
  ASSUME Inv, pc = "list", NEW files \in SUBSET RuleFiles, loaded' = loaded,
         todo' = Listed(RuleFiles \ files), \A f \in Files : since[f] \subseteq since'[f],
         \A f \in files : None \in since'[f]
  PROVE  \A f \in RuleFiles : Fetched(f)' \/ \E i \in DOMAIN todo' : todo'[i] = f
<1>1. ASSUME NEW f \in RuleFiles, disk[f] = None \/ f \in files
      PROVE  Fetched(f)'
  <2>1. loaded[f] = None /\ f \in Files
    BY DEF Inv, LoadSoFar, Files
  <2>2. None \in since'[f]
    BY <1>1, <2>1 DEF Inv, OnDiskSince
  <2>3. None = Value(f, None) /\ None # "bad"
    BY ConfigWatchAssumption DEF Value
  <2>4. QED
    BY <2>1, <2>2, <2>3 DEF Fetched
<1>2. ASSUME NEW f \in RuleFiles, disk[f] # None, f \notin files
      PROVE  \E i \in DOMAIN todo' : todo'[i] = f
  <2>1. CASE f = "00-baseline"
    <3>1. 1 \in DOMAIN todo' /\ todo'[1] = f
      BY <1>2, <2>1 DEF Listed
    <3>2. QED
      BY <3>1
  <2>2. CASE f = "10-extra"
    <3>1. Len(todo') \in DOMAIN todo' /\ todo'[Len(todo')] = f
      BY <1>2, <2>2 DEF Listed
    <3>2. QED
      BY <3>1
  <2>3. QED
    BY <2>1, <2>2 DEF RuleFiles
<1>3. QED
  BY <1>1, <1>2

\* Each step of LiveConfig::load adds what it read.
LEMMA LoadStep ==
  ASSUME Inv, [Next]_vars
  PROVE  LoadSoFar'
<1> USE DEF Inv
<1>0. /\ "daemon" \in Files /\ "sets" \in Files /\ RuleFiles \subseteq Files
      /\ "daemon" \notin RuleFiles /\ "sets" \notin RuleFiles
  BY DEF Files, RuleFiles
<1>1. CASE \/ UNCHANGED vars \/ Bridge \/ Signal \/ Debounce
           \/ \E f \in Files, content \in Versions \cup {"default", "bad", None} : Edit(f, content)
  <2>1. UNCHANGED load /\ ~Wake
    BY <1>1 DEF vars, Bridge, Signal, Debounce, Edit, Wake, load
  <2>2. QED
    BY <2>1, HistoryStep, LoadKept
<1>2. CASE Done
  BY <1>2, DoneKeepsNothing
<1>3. CASE SetupSighup \/ StartWatch \/ WatchEnds \/ Wake \/ CheckSeed \/ WriteSeed \/ OverlookSeed
  <2>1. /\ pc \in {"start", "spawn", "wait", "seed", "write"}
        /\ pc' \in {"spawn", "gone", "wait", "seed", "write"} /\ loaded' = loaded
    BY <1>3 DEF SetupSighup, StartWatch, WatchEnds, Wake, CheckSeed, WriteSeed, OverlookSeed
  <2>2. QED
    BY <2>1 DEF LoadSoFar
<1>4. CASE ReadDaemon /\ ~Done
  <2>1. /\ pc = "seed" /\ pc' = "sets" /\ disk["daemon"] # "bad" /\ disks' = disks
        /\ loaded' = [loaded EXCEPT !["daemon"] = Current["daemon"]]
    BY <1>4 DEF ReadDaemon, Read
  <2>2. Fetched("daemon")' /\ \A g \in RuleFiles : loaded'[g] = loaded[g]
    BY <1>0, <2>1, ReadFetches
  <2>3. QED
    BY <2>1, <2>2 DEF LoadSoFar
<1>5. CASE ReadSets /\ ~Done
  <2>1. /\ pc = "sets" /\ pc' = "list" /\ disk["sets"] # "bad" /\ disks' = disks
        /\ loaded' = [loaded EXCEPT !["sets"] = Current["sets"]]
    BY <1>5 DEF ReadSets, Read
  <2>2. Fetched("sets")' /\ (\A g \in RuleFiles : loaded'[g] = loaded[g]) /\ Fetched("daemon")'
    BY <1>0, <2>1, ReadFetches DEF LoadSoFar
  <2>3. QED
    BY <2>1, <2>2 DEF LoadSoFar
<1>6. CASE ListRules \/ OverlookRules
  <2>1. PICK files \in SUBSET RuleFiles : /\ todo' = Listed(RuleFiles \ files)
                                         /\ \A f \in files : None \in since'[f]
    <3>1. ListRules => todo' = Listed(RuleFiles \ {})
      BY DEF ListRules
    <3>2. OverlookRules => \E files \in SUBSET RuleFiles : /\ todo' = Listed(RuleFiles \ files)
                                                          /\ Overlook(files)
      BY DEF OverlookRules
    <3>3. \A files \in SUBSET RuleFiles : Overlook(files) => \A f \in files : None \in since'[f]
      BY <1>0 DEF Overlook
    <3>4. QED
      BY <1>6, <3>1, <3>2, <3>3
  <2>2. pc = "list" /\ pc' = "rules" /\ loaded' = loaded /\ ~Wake
    BY <1>6 DEF ListRules, OverlookRules, Wake
  <2>3. \A f \in Files : since[f] \subseteq since'[f]
    BY <2>2, HistoryStep
  <2>4. \A f \in Files : Fetched(f) => Fetched(f)'
    BY <2>2, <2>3 DEF Fetched, Value
  <2>5. \A f \in RuleFiles : Fetched(f)' \/ \E i \in DOMAIN todo' : todo'[i] = f
    BY <2>1, <2>2, <2>3, ListedRules
  <2>6. QED
    BY <1>0, <2>2, <2>4, <2>5 DEF LoadSoFar
<1>7. CASE ReadRules /\ ~Done
  <2>0. PICK h : h = Head(todo)
    OBVIOUS
  <2>1. /\ pc = "rules" /\ pc' = "rules" /\ disk[h] # "bad" /\ disks' = disks
        /\ loaded' = [loaded EXCEPT ![h] = Current[h]]
        /\ todo # <<>> /\ todo' = Tail(todo)
    BY <1>7, <2>0 DEF ReadRules, Read
  <2>2. h \in Files
    BY <2>0, <2>1 DEF TypeOK
  <2>3. Fetched(h)' /\ \A g \in Files \ {h} : Fetched(g) => Fetched(g)'
    BY <2>1, <2>2, ReadFetches
  <2>4. ASSUME NEW f \in Files, NEW i \in DOMAIN todo, todo[i] = f
        PROVE  f = h \/ \E k \in DOMAIN todo' : todo'[k] = f
    <3>1. CASE i = 1
      BY <2>0, <2>4, <3>1
    <3>2. CASE i # 1
      <4>1. i - 1 \in DOMAIN todo' /\ todo'[i - 1] = f
        BY <2>1, <2>4, <3>2 DEF TypeOK
      <4>2. QED
        BY <4>1
    <3>3. QED
      BY <3>1, <3>2
  <2>5. ASSUME NEW f \in RuleFiles
        PROVE  Fetched(f)' \/ \E k \in DOMAIN todo' : todo'[k] = f
    BY <1>0, <2>1, <2>3, <2>4 DEF LoadSoFar
  <2>6. Fetched("daemon")' /\ Fetched("sets")'
    BY <1>0, <2>1, <2>3 DEF LoadSoFar
  <2>7. QED
    BY <2>1, <2>5, <2>6 DEF LoadSoFar
<1>8. CASE Compile /\ ~Done
  <2>1. /\ pc = "rules" /\ pc' = "swap" /\ todo = <<>> /\ disks' = disks /\ loaded' = loaded
        /\ Compiles(loaded)
    BY <1>8 DEF Compile
  <2>2. \A f \in Files : Fetched(f) => Fetched(f)'
    BY <2>1 DEF Fetched, disks, Value
  <2>3. \A f \in RuleFiles : Fetched(f)
    BY <2>1 DEF LoadSoFar
  <2>4. Compiles(loaded)'
    BY <2>1 DEF Compiles
  <2>5. QED
    BY <1>0, <2>1, <2>2, <2>3, <2>4 DEF LoadSoFar
<1>9. CASE RuleFileGone \/ Install \/ LoadFails
  BY <1>2, <1>9 DEF RuleFileGone, Install, LoadFails
<1>10. CASE OverlookDaemon
  <2>1. /\ pc' = "sets" /\ pc = "seed" /\ Overlook({"daemon"})
        /\ loaded' = [loaded EXCEPT !["daemon"] = Value("daemon", None)]
    BY <1>10 DEF OverlookDaemon, OverlookPart
  <2>2. Fetched("daemon")' /\ \A g \in RuleFiles : loaded'[g] = loaded[g]
    BY <1>0, <2>1, OverlookFetches
  <2>3. QED
    BY <2>1, <2>2 DEF LoadSoFar
<1>11. CASE OverlookSets
  <2>1. /\ pc' = "list" /\ pc = "sets" /\ Overlook({"sets"})
        /\ loaded' = [loaded EXCEPT !["sets"] = Value("sets", None)]
    BY <1>11 DEF OverlookSets, OverlookPart
  <2>2. Fetched("sets")' /\ (\A g \in RuleFiles : loaded'[g] = loaded[g]) /\ Fetched("daemon")'
    BY <1>0, <2>1, OverlookFetches DEF LoadSoFar
  <2>3. QED
    BY <2>1, <2>2 DEF LoadSoFar
<1>12. QED
  BY <1>1, <1>2, <1>3, <1>4, <1>5, <1>6, <1>7, <1>8, <1>9, <1>10, <1>11 DEF Next, Watcher, Unseen

(***************************************************************************)
(* The theorems                                                            *)
(***************************************************************************)

\* The invariant holds of every reload.
LEMMA InvHolds == Spec => []Inv
<1>1. ASSUME Init PROVE Inv
  <2>1. TypeOK
    BY <1>1 DEF Init, TypeOK, Content, Nothing
  <2>2. OnDiskSince
    BY <1>1 DEF Init, OnDiskSince
  <2>3. LoadSoFar /\ SeedsMissing
    BY <1>1 DEF Init, LoadSoFar, SeedsMissing, Nothing, RuleFiles, Files
  <2>4. QED
    BY <2>1, <2>2, <2>3 DEF Inv
<1>2. ASSUME Inv, [Next]_vars PROVE Inv'
  BY <1>2, TypeStep, HistoryStep, SeedStep, LoadStep DEF Inv
<1>3. QED
  BY <1>1, <1>2, PTL DEF Spec

\* Whatever the operator does between two steps of a load, the configuration that
\* swap_live() installs has, for every file, a valid content that the file had while it
\* was loaded, or none if an I/O error hid the file, and compiles as a whole (LiveConfig::load, try_reload).
THEOREM ReloadInstallsWhatWasThere == Spec => InstallsWhatWasThere
<1>1. ASSUME Inv, [Next]_vars, live' # live
      PROVE  /\ \A f \in Files : live'[f] \in {Value(f, c) : c \in since[f]} \ {"bad"}
             /\ Compiles(live')
  <2>1. Install
    BY <1>1 DEF Next, Watcher, vars, Bridge, Signal, Debounce, Edit, SetupSighup, StartWatch,
                WatchEnds, Wake, CheckSeed, WriteSeed, ReadDaemon, ReadSets, ListRules, ReadRules,
                RuleFileGone, Compile, LoadFails, Read, Unseen, OverlookSeed, OverlookDaemon,
                OverlookSets, OverlookPart, OverlookRules, Overlook
  <2>2. pc = "swap" /\ live' = loaded
    BY <2>1 DEF Install
  <2>3. Compiles(loaded) /\ \A f \in Files : Fetched(f)
    BY <1>1, <2>2 DEF Inv, LoadSoFar, Files
  <2>4. QED
    BY <2>2, <2>3 DEF Fetched
<1>2. QED
  BY <1>1, InvHolds, PTL DEF Spec, InstallsWhatWasThere

\* A reload writes defaults only where a file was, or because of an I/O error appeared to
\* be, missing during this load, and the baseline only where every rule file was
\* (ensure_config_files).
THEOREM ReloadSeedsOnlyMissing == Spec => SeedsOnlyMissing
<1>1. ASSUME Inv, pc = "write"
      PROVE  \A f \in Concerned(Head(todo)) : None \in since[f]
  BY <1>1 DEF Inv, SeedsMissing
<1>2. QED
  BY <1>1, InvHolds, PTL DEF Spec, SeedsOnlyMissing
=============================================================================
