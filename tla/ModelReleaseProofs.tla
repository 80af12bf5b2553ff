-------------------------- MODULE ModelReleaseProofs --------------------------
(***************************************************************************)
(* Proofs about the two files of a model, for any number of trainings and  *)
(* servers.  A training that was not overlapped had the directory to       *)
(* itself while it saved (Alone), so when it is done and its model.json is *)
(* still there, so is its meta.json (Paired); and while a server loads     *)
(* quietly nothing in the directory moves (Quiet).  The last part is about *)
(* the threshold: whatever finitely many rows the test set has, argmax     *)
(* finds a peak of the curve, and /score's comparison flags its rows.      *)
(***************************************************************************)
EXTENDS ModelRelease, FiniteInduction

Stages == {"idle", "trained", "model open", "model saved", "meta open", "done", "dead"}
Busy == {"model open", "model saved", "meta open"}
Saved == {"model saved", "meta open", "done", "dead"}

Alone ==
    \A r \in Trainings : training[r].stage \in Busy /\ ~training[r].overlapped =>
        \A k \in Trainings : training[k].stage \in Busy => k = r

\* Whoever wrote model.json has saved it, and has written meta.json too if it
\* ended well and alone.
Paired ==
    \A r \in Trainings : dir.model = r =>
        /\ training[r].stage \in Saved
        /\ training[r].stage = "done" /\ ~training[r].overlapped =>
              dir.meta = r /\ \A k \in Trainings : training[k].stage \notin Busy

Quiet ==
    \A s \in Servers : server[s].stage = "half" /\ server[s].quiet =>
        dir.model = server[s].model /\ \A k \in Trainings : training[k].stage \notin Busy

\* What a server has in memory was whole and came from its training.
Loaded ==
    \A s \in Servers : server[s].stage \in {"half", "serving"} =>
        server[s].model \in Trainings /\ training[server[s].model].stage \in Saved

ReleaseInv == RTypeOK /\ Alone /\ Paired /\ Quiet /\ Loaded /\ MixedPairHasACause

-----------------------------------------------------------------------------
(* What the steps do *)

LEMMA Outsiders == None \notin Trainings /\ Partial \notin Trainings
  BY ReleaseAssumption

LEMMA BusyIsSaving == \A r : Saving(r) <=> training[r].stage \in Busy
  BY DEF Saving, Busy

\* A training that goes from one stage to another changes nothing else.
LEMMA GoesTo ==
    ASSUME RTypeOK, NEW r \in Trainings, NEW stage \in Stages, Goes(r, stage)
    PROVE  /\ training' \in [Trainings -> Training]
           /\ training'[r].stage = stage
           /\ \A k \in Trainings : k # r => training'[k] = training[k]
           /\ \A k \in Trainings : training'[k].overlapped = training[k].overlapped
  <1> DEFINE t == [training[r] EXCEPT !.stage = stage]
  <1>1. training \in [Trainings -> Training] /\ training[r] \in Training
    BY DEF RTypeOK
  <1>2. t \in Training /\ t.stage = stage /\ t.overlapped = training[r].overlapped
    BY <1>1 DEF Training, Stages
  <1>3. training' = [training EXCEPT ![r] = t]
    BY DEF Goes
  <1> HIDE DEF t
  <1> QED
    BY <1>1, <1>2, <1>3

LEMMA TrainsTo ==
    ASSUME RTypeOK, NEW r \in Trainings, Train(r)
    PROVE  /\ training' \in [Trainings -> Training]
           /\ training[r].stage = "idle" /\ training'[r].stage = "trained"
           /\ \A k \in Trainings : k # r => training'[k] = training[k]
           /\ \A k \in Trainings : training'[k].overlapped = training[k].overlapped
  <1>1. PICK h \in Holdouts :
            training' = [training EXCEPT ![r] = [training[r] EXCEPT !.stage = "trained", !.holdout = h]]
    BY DEF Train
  <1> DEFINE t == [training[r] EXCEPT !.stage = "trained", !.holdout = h]
  <1>2. training \in [Trainings -> Training] /\ training[r] \in Training /\ training[r].stage = "idle"
    BY DEF RTypeOK, Train
  <1>3. t \in Training /\ t.stage = "trained" /\ t.overlapped = training[r].overlapped
    BY <1>2 DEF Training
  <1>4. training' = [training EXCEPT ![r] = t]
    BY <1>1
  <1> HIDE DEF t
  <1> QED
    BY <1>2, <1>3, <1>4

LEMMA OpensModel ==
    ASSUME RTypeOK, NEW r \in Trainings, OpenModel(r)
    PROVE  /\ training' \in [Trainings -> Training]
           /\ training[r].stage = "trained" /\ training'[r].stage = "model open"
           /\ \A k \in Trainings : k # r => training'[k].stage = training[k].stage
           /\ \A k \in Trainings : k # r /\ training[k].overlapped => training'[k].overlapped
           /\ \A k \in Trainings : k # r /\ training[k].stage \in Busy =>
                 training'[k].overlapped /\ training'[r].overlapped
           /\ dir' = [model |-> Partial, meta |-> dir.meta]
  <1> DEFINE others == {k \in Trainings \ {r} : Saving(k)}
             mine == [training[r] EXCEPT !.stage = "model open", !.overlapped = others # {}]
             theirs(k) == [training[k] EXCEPT !.overlapped = TRUE]
  <1>1. training \in [Trainings -> Training] /\ training[r].stage = "trained"
    BY DEF RTypeOK, OpenModel
  <1>2. training' = [k \in Trainings |-> IF k = r THEN mine ELSE IF k \in others THEN theirs(k) ELSE training[k]]
    BY DEF OpenModel
  <1>3. mine \in Training /\ mine.stage = "model open" /\ mine.overlapped = (others # {})
    <2>1. (others # {}) \in BOOLEAN /\ training[r] \in Training
      BY <1>1
    <2> HIDE DEF others
    <2> QED
      BY <2>1 DEF Training
  <1>4. \A k \in Trainings : /\ theirs(k) \in Training
                             /\ theirs(k).stage = training[k].stage /\ theirs(k).overlapped
    BY <1>1 DEF Training
  <1>5. \A k \in Trainings : k # r /\ training[k].stage \in Busy => k \in others /\ others # {}
    BY BusyIsSaving
  <1>6. dir' = [model |-> Partial, meta |-> dir.meta]
    BY DEF OpenModel, RTypeOK
  <1> HIDE DEF mine, theirs, others
  <1>7. training' \in [Trainings -> Training]
    BY <1>1, <1>2, <1>3, <1>4
  <1>8. training'[r] = mine
    BY <1>2
  <1>9. \A k \in Trainings : k # r => training'[k] = training[k] \/ training'[k] = theirs(k)
    BY <1>2
  <1>10. \A k \in Trainings : k # r /\ k \in others => training'[k] = theirs(k)
    BY <1>2
  <1> QED
    BY <1>1, <1>3, <1>4, <1>5, <1>6, <1>7, <1>8, <1>9, <1>10

LEMMA ClosesModel ==
    ASSUME RTypeOK, NEW r \in Trainings, CloseModel(r)
    PROVE  \E content \in {r, Partial} : dir' = [model |-> content, meta |-> dir.meta]
  BY DEF CloseModel, Closed, RTypeOK

LEMMA ClosesMeta ==
    ASSUME RTypeOK, NEW r \in Trainings, CloseMeta(r)
    PROVE  /\ \E content \in {r, Partial} : dir' = [model |-> dir.model, meta |-> content]
           /\ (\A k \in Trainings : training[k].stage \in Busy => k = r) => dir'.meta = r
  <1>1. PICK content \in Closed(r, "meta open") : dir' = [dir EXCEPT !.meta = content]
    BY DEF CloseMeta
  <1>2. dir' = [model |-> dir.model, meta |-> content]
    BY <1>1 DEF RTypeOK
  <1>3. content \in {r, Partial}
    BY <1>1 DEF Closed
  <1>4. ASSUME \A k \in Trainings : training[k].stage \in Busy => k = r PROVE content = r
    BY <1>1, <1>4 DEF Closed, Busy
  <1> QED
    BY <1>2, <1>3, <1>4

-----------------------------------------------------------------------------
(* Types *)

LEMMA TypeStep == RTypeOK /\ Loaded /\ [RNext]_rvars => RTypeOK'
  <1> SUFFICES ASSUME RTypeOK, Loaded, [RNext]_rvars PROVE RTypeOK'
    OBVIOUS
  <1>1. /\ dir \in [model: File, meta: File] /\ server \in [Servers -> Server]
        /\ \A s \in Servers : server[s].stage = "serving" =>
              server[s].model \in Trainings /\ server[s].meta \in Trainings
    BY DEF RTypeOK
  <1>2. ASSUME NEW r \in Trainings, Train(r) \/ KeepModel(r) \/ TrainingDies(r) PROVE RTypeOK'
    <2>1. training' \in [Trainings -> Training]
      <3>1. CASE Train(r)
        BY <3>1, TrainsTo
      <3>2. CASE KeepModel(r)
        BY <3>2, GoesTo DEF KeepModel, Stages
      <3>3. CASE TrainingDies(r)
        BY <3>3, GoesTo DEF TrainingDies, Stages
      <3> QED
        BY <1>2, <3>1, <3>2, <3>3
    <2>2. UNCHANGED <<dir, server>>
      BY <1>2 DEF Train, KeepModel, TrainingDies
    <2> QED
      BY <1>1, <2>1, <2>2 DEF RTypeOK
  <1>3. ASSUME NEW r \in Trainings, OpenModel(r) PROVE RTypeOK'
    <2>1. training' \in [Trainings -> Training] /\ dir' \in [model: File, meta: File]
      <3>1. training' \in [Trainings -> Training] /\ dir' = [model |-> Partial, meta |-> dir.meta]
        BY <1>3, OpensModel
      <3>2. dir.meta \in File /\ Partial \in File
        BY <1>1 DEF File
      <3> QED
        BY <3>1, <3>2
    <2> DEFINE louder(s) == [server[s] EXCEPT !.quiet = FALSE]
    <2>2. \A s \in Servers : /\ louder(s) \in Server /\ louder(s).stage = server[s].stage
                             /\ louder(s).model = server[s].model /\ louder(s).meta = server[s].meta
      BY <1>1 DEF Server
    <2>3. server' = [s \in Servers |-> IF server[s].stage = "half" THEN louder(s) ELSE server[s]]
      BY <1>3 DEF OpenModel
    <2> HIDE DEF louder
    <2>4. server' \in [Servers -> Server]
      BY <1>1, <2>2, <2>3
    <2>5. \A s \in Servers : server'[s].stage = server[s].stage /\ server'[s].model = server[s].model
                             /\ server'[s].meta = server[s].meta
      BY <2>2, <2>3
    <2> QED
      BY <1>1, <2>1, <2>4, <2>5 DEF RTypeOK
  <1>4. ASSUME NEW r \in Trainings, CloseModel(r) \/ OpenMeta(r) \/ CloseMeta(r) PROVE RTypeOK'
    <2>1. training' \in [Trainings -> Training]
      BY <1>4, GoesTo DEF CloseModel, OpenMeta, CloseMeta, Stages
    <2>2. dir' \in [model: File, meta: File]
      <3>1. CASE CloseModel(r)
        BY <1>1, <3>1, ClosesModel DEF File
      <3>2. CASE OpenMeta(r)
        BY <1>1, <3>2 DEF OpenMeta, File
      <3>3. CASE CloseMeta(r)
        BY <1>1, <3>3, ClosesMeta DEF File
      <3> QED
        BY <1>4, <3>1, <3>2, <3>3
    <2>3. UNCHANGED server
      BY <1>4 DEF CloseModel, OpenMeta, CloseMeta
    <2> QED
      BY <1>1, <2>1, <2>2, <2>3 DEF RTypeOK
  <1>5. ASSUME NEW s \in Servers, LoadModel(s) \/ LoadMeta(s) \/ Restart(s) PROVE RTypeOK'
    <2>1. UNCHANGED <<dir, training>>
      BY <1>5 DEF LoadModel, LoadMeta, Restart
    <2>2. PICK q : server' = [server EXCEPT ![s] = q] /\ q \in Server
                   /\ (q.stage = "serving" => q.model \in Trainings /\ q.meta \in Trainings)
      <3>1. Down \in Server /\ Down.stage = "down"
        BY DEF Down, Server, File
      <3>2. CASE LoadModel(s)
        <4> DEFINE half == [stage |-> "half", model |-> dir.model, meta |-> None,
                            quiet |-> \A r \in Trainings : ~Saving(r)]
        <4>1. server' = [server EXCEPT ![s] = half]
          BY <3>2 DEF LoadModel
        <4>2. half \in Server /\ half.stage = "half"
          BY <1>1 DEF Server, File
        <4> QED
          BY <4>1, <4>2
      <3>3. CASE LoadMeta(s) /\ dir.meta \in Trainings
        <4> DEFINE whole == [server[s] EXCEPT !.stage = "serving", !.meta = dir.meta]
        <4>1. server' = [server EXCEPT ![s] = whole]
          BY <3>3 DEF LoadMeta
        <4>2. whole \in Server /\ whole.meta = dir.meta /\ whole.model = server[s].model
          BY <1>1 DEF Server
        <4>3. server[s].model \in Trainings
          BY <3>3 DEF LoadMeta, Loaded
        <4> QED
          BY <3>3, <4>1, <4>2, <4>3
      <3>4. CASE Restart(s) \/ (LoadMeta(s) /\ dir.meta \notin Trainings)
        BY <3>1, <3>4 DEF Restart, LoadMeta
      <3> QED
        BY <1>5, <3>2, <3>3, <3>4
    <2> QED
      BY <1>1, <2>1, <2>2 DEF RTypeOK
  <1>6. CASE NothingToLoad \/ UNCHANGED rvars
    BY <1>1, <1>6 DEF NothingToLoad, rvars, RTypeOK
  <1> QED
    BY <1>2, <1>3, <1>4, <1>5, <1>6 DEF RNext, TrainStep

-----------------------------------------------------------------------------
(* The invariant *)

\* A training that has saved its model never goes back.
LEMMA NoWayBack ==
    ASSUME RTypeOK, [RNext]_rvars, NEW r \in Trainings, training[r].stage \in Saved
    PROVE  /\ training'[r].stage \in Saved
           /\ training[r].stage = "dead" => training'[r].stage = "dead"
           /\ training[r].overlapped => training'[r].overlapped
  <1>1. ASSUME NEW k \in Trainings, TrainStep(k) PROVE k = r => ~Train(k) /\ ~KeepModel(k) /\ ~OpenModel(k) /\ ~CloseModel(k)
    BY DEF Train, KeepModel, OpenModel, CloseModel, Saved
  <1>2. ASSUME NEW k \in Trainings, Train(k) PROVE training'[r] = training[r]
    BY <1>1, <1>2, TrainsTo DEF TrainStep
  <1>3. ASSUME NEW k \in Trainings, OpenModel(k)
        PROVE  training'[r].stage = training[r].stage /\ (training[r].overlapped => training'[r].overlapped)
    BY <1>1, <1>3, OpensModel DEF TrainStep
  <1>4. ASSUME NEW k \in Trainings, KeepModel(k) \/ CloseModel(k) PROVE training'[r] = training[r]
    BY <1>1, <1>4, GoesTo DEF TrainStep, KeepModel, CloseModel, Stages
  <1>5. ASSUME NEW k \in Trainings, NEW stage \in {"meta open", "done", "dead"}, Goes(k, stage),
               training[k].stage # "dead"
        PROVE  /\ training'[r].stage \in Saved
               /\ training[r].stage = "dead" => training'[r].stage = "dead"
               /\ training[r].overlapped => training'[r].overlapped
    <2>1. stage \in Stages /\ stage \in Saved
      BY DEF Stages, Saved
    <2>2. CASE k = r
      BY <1>5, <2>1, <2>2, GoesTo
    <2>3. CASE k # r
      BY <1>5, <2>1, <2>3, GoesTo
    <2> QED
      BY <2>2, <2>3
  <1>6. ASSUME NEW k \in Trainings, OpenMeta(k) \/ CloseMeta(k) \/ TrainingDies(k)
        PROVE  /\ training'[r].stage \in Saved
               /\ training[r].stage = "dead" => training'[r].stage = "dead"
               /\ training[r].overlapped => training'[r].overlapped
    BY <1>5, <1>6 DEF OpenMeta, CloseMeta, TrainingDies
  <1>7. CASE training' = training
    BY <1>7
  <1>8. ASSUME NEW s \in Servers, LoadModel(s) \/ LoadMeta(s) \/ Restart(s) PROVE training' = training
    BY <1>8 DEF LoadModel, LoadMeta, Restart
  <1> QED
    BY <1>2, <1>3, <1>4, <1>6, <1>7, <1>8 DEF RNext, TrainStep, NothingToLoad, rvars

LEMMA AloneStep == RTypeOK /\ Alone /\ [RNext]_rvars => Alone'
  <1> SUFFICES ASSUME RTypeOK, Alone, [RNext]_rvars PROVE Alone'
    OBVIOUS
  <1>1. CASE training' = training
    BY <1>1 DEF Alone
  <1>2. ASSUME NEW r \in Trainings, NEW stage \in Stages, Goes(r, stage),
               stage \in Busy => training[r].stage \in Busy
        PROVE  Alone'
    <2>1. \A k \in Trainings : /\ training'[k].stage \in Busy => training[k].stage \in Busy
                               /\ training'[k].overlapped = training[k].overlapped
      BY <1>2, GoesTo
    <2> QED
      BY <2>1 DEF Alone
  <1>3. ASSUME NEW r \in Trainings, Train(r) PROVE Alone'
    <2>1. \A k \in Trainings : /\ training'[k].stage \in Busy => training[k].stage \in Busy
                               /\ training'[k].overlapped = training[k].overlapped
      <3>1. "trained" \notin Busy
        BY DEF Busy
      <3> QED
        BY <1>3, <3>1, TrainsTo
    <2> QED
      BY <2>1 DEF Alone
  <1>4. ASSUME NEW r \in Trainings, OpenModel(r) PROVE Alone'
    <2> SUFFICES ASSUME NEW j \in Trainings, training'[j].stage \in Busy, ~training'[j].overlapped,
                        NEW k \in Trainings, training'[k].stage \in Busy
                 PROVE  k = j
      BY DEF Alone
    <2>1. \A x \in Trainings : x # r => training'[x].stage = training[x].stage
      BY <1>4, OpensModel
    <2>2. \A x \in Trainings : x # r /\ training[x].stage \in Busy =>
                               training'[x].overlapped /\ training'[r].overlapped
      BY <1>4, OpensModel
    <2>3. j = r
      BY <2>1, <2>2
    <2> QED
      BY <2>1, <2>2, <2>3
  <1>5. ASSUME NEW r \in Trainings,
               KeepModel(r) \/ CloseModel(r) \/ OpenMeta(r) \/ CloseMeta(r) \/ TrainingDies(r)
        PROVE  Alone'
    BY <1>2, <1>5 DEF KeepModel, CloseModel, OpenMeta, CloseMeta, TrainingDies, Stages, Busy
  <1>6. ASSUME NEW s \in Servers, LoadModel(s) \/ LoadMeta(s) \/ Restart(s) PROVE training' = training
    BY <1>6 DEF LoadModel, LoadMeta, Restart
  <1> QED
    BY <1>1, <1>3, <1>4, <1>5, <1>6 DEF RNext, TrainStep, NothingToLoad, rvars

LEMMA PairedStep == RTypeOK /\ Alone /\ Paired /\ [RNext]_rvars => Paired'
  <1> SUFFICES ASSUME RTypeOK, Alone, Paired, [RNext]_rvars,
                      NEW r \in Trainings, dir'.model = r
               PROVE  /\ training'[r].stage \in Saved
                      /\ training'[r].stage = "done" /\ ~training'[r].overlapped =>
                            dir'.meta = r /\ \A k \in Trainings : training'[k].stage \notin Busy
    BY DEF Paired
  <1>1. dir.model = r => training[r].stage \in Saved /\ training'[r].stage \in Saved
    BY NoWayBack DEF Paired
  <1>2. dir.model = r /\ training[r].stage = "done" /\ ~training[r].overlapped =>
            dir.meta = r /\ \A k \in Trainings : training[k].stage \notin Busy
    BY DEF Paired
  <1>3. ASSUME NEW k \in Trainings, Train(k) \/ KeepModel(k) \/ TrainingDies(k)
        PROVE  /\ training'[r].stage = "done" /\ ~training'[r].overlapped =>
                     dir'.meta = r /\ \A x \in Trainings : training'[x].stage \notin Busy
    <2>1. dir' = dir
      BY <1>3 DEF Train, KeepModel, TrainingDies
    <2>2. /\ training'[k].stage \notin Busy
          /\ \A x \in Trainings : x # k => training'[x] = training[x]
          /\ k = r => training'[k].stage # "done" \/ KeepModel(k)
      <3>1. CASE Train(k)
        BY <3>1, TrainsTo DEF Busy
      <3>2. CASE KeepModel(k)
        BY <3>2, GoesTo DEF KeepModel, Stages, Busy
      <3>3. CASE TrainingDies(k)
        BY <3>3, GoesTo DEF TrainingDies, Stages, Busy
      <3> QED
        BY <1>3, <3>1, <3>2, <3>3
    <2>3. k = r => ~KeepModel(k)
      BY <1>1, <2>1 DEF KeepModel, Saved
    <2> QED
      BY <1>2, <2>1, <2>2, <2>3
  <1>4. ASSUME NEW k \in Trainings, OpenModel(k) PROVE FALSE
    <2>1. dir' = [model |-> Partial, meta |-> dir.meta]
      BY <1>4, OpensModel
    <2> QED
      BY <2>1, Outsiders
  <1>5. ASSUME NEW k \in Trainings, CloseModel(k)
        PROVE  training'[r].stage \in Saved /\ training'[r].stage # "done"
    <2>1. k = r
      BY <1>5, ClosesModel, Outsiders
    <2>2. training'[k].stage = "model saved"
      BY <1>5, GoesTo DEF CloseModel, Stages
    <2> QED
      BY <2>1, <2>2 DEF Saved
  <1>6. ASSUME NEW k \in Trainings, OpenMeta(k)
        PROVE  dir.model = r /\ ~(training'[r].stage = "done" /\ ~training'[r].overlapped)
    <2>1. dir' = [model |-> dir.model, meta |-> Partial]
      BY <1>6 DEF OpenMeta, RTypeOK
    <2>2. training[k].stage \in Busy
      BY <1>6 DEF OpenMeta, Busy
    <2>3. training'[k].stage = "meta open" /\ \A x \in Trainings : x # k => training'[x] = training[x]
      BY <1>6, GoesTo DEF OpenMeta, Stages
    <2> QED
      BY <1>2, <2>1, <2>2, <2>3
  <1>7. ASSUME NEW k \in Trainings, CloseMeta(k)
        PROVE  /\ dir.model = r
               /\ training'[r].stage = "done" /\ ~training'[r].overlapped =>
                     dir'.meta = r /\ \A x \in Trainings : training'[x].stage \notin Busy
    <2>1. dir'.model = dir.model
      BY <1>7, ClosesMeta
    <2>2. training[k].stage \in Busy
      BY <1>7 DEF CloseMeta, Busy
    <2>3. /\ training'[k].stage = "done" /\ \A x \in Trainings : x # k => training'[x] = training[x]
          /\ \A x \in Trainings : training'[x].overlapped = training[x].overlapped
      BY <1>7, GoesTo DEF CloseMeta, Stages
    <2>4. ASSUME training'[r].stage = "done", ~training'[r].overlapped
          PROVE  dir'.meta = r /\ \A x \in Trainings : training'[x].stage \notin Busy
      <3>1. k = r
        BY <1>2, <2>1, <2>2, <2>3, <2>4
      <3>2. \A x \in Trainings : training[x].stage \in Busy => x = r
        BY <2>2, <2>3, <2>4, <3>1 DEF Alone
      <3>3. dir'.meta = r
        BY <1>7, <3>1, <3>2, ClosesMeta
      <3>4. "done" \notin Busy
        BY DEF Busy
      <3> QED
        BY <2>3, <3>1, <3>2, <3>3, <3>4
    <2> QED
      BY <2>1, <2>4
  <1>8. ASSUME UNCHANGED <<dir, training>>
        PROVE  /\ training'[r].stage = "done" /\ ~training'[r].overlapped =>
                     dir'.meta = r /\ \A x \in Trainings : training'[x].stage \notin Busy
    BY <1>2, <1>8
  <1>9. ASSUME NEW k \in Trainings, Train(k) \/ KeepModel(k) \/ TrainingDies(k) PROVE dir' = dir
    BY <1>9 DEF Train, KeepModel, TrainingDies
  <1>10. ASSUME NEW s \in Servers, LoadModel(s) \/ LoadMeta(s) \/ Restart(s)
         PROVE  UNCHANGED <<dir, training>>
    BY <1>10 DEF LoadModel, LoadMeta, Restart
  <1>11. NothingToLoad \/ UNCHANGED rvars => UNCHANGED <<dir, training>>
    BY DEF NothingToLoad, rvars
  <1> QED
    BY <1>1, <1>3, <1>4, <1>5, <1>6, <1>7, <1>8, <1>9, <1>10, <1>11 DEF RNext, TrainStep

\* Trainings do not move servers; one that starts to save is heard by those
\* that are loading.
LEMMA TrainingsAside ==
    ASSUME RTypeOK, NEW r \in Trainings, TrainStep(r), NEW s \in Servers
    PROVE  /\ server'[s].stage = server[s].stage /\ server'[s].model = server[s].model
           /\ server'[s].meta = server[s].meta
           /\ server[s].stage = "serving" => server'[s].quiet = server[s].quiet
           /\ server[s].stage = "half" /\ server'[s].quiet => server[s].quiet /\ ~OpenModel(r)
  <1>1. CASE OpenModel(r)
    <2> DEFINE louder == [server[s] EXCEPT !.quiet = FALSE]
    <2>1. server[s] \in Server
      BY DEF RTypeOK
    <2>2. /\ louder.stage = server[s].stage /\ louder.model = server[s].model
          /\ louder.meta = server[s].meta /\ ~louder.quiet
      BY <2>1 DEF Server
    <2>3. server'[s] = IF server[s].stage = "half" THEN louder ELSE server[s]
      BY <1>1 DEF OpenModel
    <2> HIDE DEF louder
    <2>4. CASE server[s].stage = "half"
      BY <2>2, <2>3, <2>4
    <2>5. CASE server[s].stage # "half"
      BY <2>3, <2>5
    <2> QED
      BY <2>4, <2>5
  <1>2. CASE ~OpenModel(r)
    <2>1. UNCHANGED server
      BY <1>2 DEF TrainStep, Train, KeepModel, CloseModel, OpenMeta, CloseMeta, TrainingDies
    <2> QED
      BY <1>2, <2>1
  <1> QED
    BY <1>1, <1>2

\* A server step of s: it has begun to load, goes on to serve, or is down.
LEMMA ServerMoves ==
    ASSUME RTypeOK, NEW s \in Servers, LoadModel(s) \/ LoadMeta(s) \/ Restart(s)
    PROVE  /\ \A q \in Servers : q # s => server'[q] = server[q]
           /\ \/ /\ server'[s].stage = "half" /\ server'[s].model = dir.model /\ dir.model \in Trainings
                 /\ server'[s].quiet => \A k \in Trainings : training[k].stage \notin Busy
              \/ /\ server[s].stage = "half" /\ server'[s].stage = "serving"
                 /\ server'[s].model = server[s].model /\ server'[s].meta = dir.meta
                 /\ server'[s].quiet = server[s].quiet
              \/ server'[s].stage = "down"
  <1>1. server \in [Servers -> Server] /\ server[s] \in Server
    BY DEF RTypeOK
  <1>2. CASE LoadModel(s)
    <2> DEFINE noise == \A r \in Trainings : ~Saving(r)
               half == [stage |-> "half", model |-> dir.model, meta |-> None, quiet |-> noise]
    <2>1. server' = [server EXCEPT ![s] = half] /\ dir.model \in Trainings
      BY <1>2 DEF LoadModel
    <2>2. half.stage = "half" /\ half.model = dir.model /\ half.quiet = noise
      OBVIOUS
    <2>3. noise => \A k \in Trainings : training[k].stage \notin Busy
      BY BusyIsSaving
    <2> HIDE DEF half, noise
    <2> QED
      BY <1>1, <2>1, <2>2, <2>3
  <1>3. CASE LoadMeta(s)
    <2> DEFINE whole == [server[s] EXCEPT !.stage = "serving", !.meta = dir.meta]
    <2>1. /\ server[s].stage = "half"
          /\ server' = [server EXCEPT ![s] = whole] \/ server' = [server EXCEPT ![s] = Down]
      BY <1>3 DEF LoadMeta
    <2>2. /\ whole.stage = "serving" /\ whole.model = server[s].model
          /\ whole.meta = dir.meta /\ whole.quiet = server[s].quiet
      BY <1>1 DEF Server
    <2>3. Down.stage = "down"
      BY DEF Down
    <2> HIDE DEF whole
    <2> QED
      BY <1>1, <2>1, <2>2, <2>3
  <1>4. CASE Restart(s)
    BY <1>1, <1>4 DEF Restart, Down
  <1> QED
    BY <1>2, <1>3, <1>4

LEMMA ServersOrTrainings ==
    ASSUME [RNext]_rvars
    PROVE  \/ \E r \in Trainings : TrainStep(r)
           \/ \E s \in Servers : (LoadModel(s) \/ LoadMeta(s) \/ Restart(s)) /\ UNCHANGED <<dir, training>>
           \/ UNCHANGED <<dir, training, server>>
  BY DEF RNext, rvars, NothingToLoad, LoadModel, LoadMeta, Restart

LEMMA LoadedStep == RTypeOK /\ Paired /\ Loaded /\ [RNext]_rvars => Loaded'
  <1> SUFFICES ASSUME RTypeOK, Paired, Loaded, [RNext]_rvars,
                      NEW s \in Servers, server'[s].stage \in {"half", "serving"}
               PROVE  server'[s].model \in Trainings /\ training'[server'[s].model].stage \in Saved
    BY DEF Loaded
  <1>1. \/ server[s].stage \in {"half", "serving"} /\ server'[s].model = server[s].model
        \/ server'[s].model = dir.model /\ dir.model \in Trainings
    <2>1. ASSUME NEW r \in Trainings, TrainStep(r)
          PROVE  server[s].stage \in {"half", "serving"} /\ server'[s].model = server[s].model
      BY <2>1, TrainingsAside
    <2>2. ASSUME NEW q \in Servers, LoadModel(q) \/ LoadMeta(q) \/ Restart(q)
          PROVE  \/ server[s].stage \in {"half", "serving"} /\ server'[s].model = server[s].model
                 \/ server'[s].model = dir.model /\ dir.model \in Trainings
      BY <2>2, ServerMoves
    <2> QED
      BY <2>1, <2>2, ServersOrTrainings
  <1>2. server'[s].model \in Trainings /\ training[server'[s].model].stage \in Saved
    BY <1>1 DEF Loaded, Paired
  <1> QED
    BY <1>2, NoWayBack

LEMMA QuietStep == RTypeOK /\ Quiet /\ [RNext]_rvars => Quiet'
  <1> SUFFICES ASSUME RTypeOK, Quiet, [RNext]_rvars,
                      NEW s \in Servers, server'[s].stage = "half", server'[s].quiet
               PROVE  dir'.model = server'[s].model /\ \A k \in Trainings : training'[k].stage \notin Busy
    BY DEF Quiet
  <1>1. ASSUME NEW r \in Trainings, TrainStep(r)
        PROVE  dir'.model = server'[s].model /\ \A k \in Trainings : training'[k].stage \notin Busy
    <2>1. server[s].stage = "half" /\ server[s].quiet /\ server'[s].model = server[s].model /\ ~OpenModel(r)
      BY <1>1, TrainingsAside
    <2>2. dir.model = server[s].model /\ \A k \in Trainings : training[k].stage \notin Busy
      BY <2>1 DEF Quiet
    <2>3. Train(r) \/ KeepModel(r) \/ TrainingDies(r)
      BY <1>1, <2>1, <2>2 DEF TrainStep, CloseModel, OpenMeta, CloseMeta, Busy
    <2>4. dir' = dir
      BY <2>3 DEF Train, KeepModel, TrainingDies
    <2>5. training'[r].stage \notin Busy /\ \A x \in Trainings : x # r => training'[x] = training[x]
      <3>1. CASE Train(r)
        BY <3>1, TrainsTo DEF Busy
      <3>2. CASE KeepModel(r)
        BY <3>2, GoesTo DEF KeepModel, Stages, Busy
      <3>3. CASE TrainingDies(r)
        BY <3>3, GoesTo DEF TrainingDies, Stages, Busy
      <3> QED
        BY <2>3, <3>1, <3>2, <3>3
    <2> QED
      BY <2>1, <2>2, <2>4, <2>5
  <1>2. ASSUME NEW q \in Servers, LoadModel(q) \/ LoadMeta(q) \/ Restart(q), UNCHANGED <<dir, training>>
        PROVE  dir'.model = server'[s].model /\ \A k \in Trainings : training'[k].stage \notin Busy
    <2>1. CASE q = s
      BY <1>2, <2>1, ServerMoves
    <2>2. CASE q # s
      BY <1>2, <2>2, ServerMoves DEF Quiet
    <2> QED
      BY <2>1, <2>2
  <1>3. CASE UNCHANGED <<dir, training, server>>
    BY <1>3 DEF Quiet
  <1> QED
    BY <1>1, <1>2, <1>3, ServersOrTrainings

LEMMA MixedStep ==
    RTypeOK /\ Paired /\ Quiet /\ Loaded /\ MixedPairHasACause /\ [RNext]_rvars => MixedPairHasACause'
  <1> SUFFICES ASSUME RTypeOK, Paired, Quiet, Loaded, MixedPairHasACause, [RNext]_rvars,
                      NEW s \in Servers, server'[s].stage = "serving",
                      server'[s].model # server'[s].meta, server'[s].quiet
               PROVE  \/ training'[server'[s].model].stage = "dead"
                      \/ training'[server'[s].model].overlapped
    BY DEF MixedPairHasACause
  <1> DEFINE m == server[s].model
             stayed == /\ server[s].stage = "serving" /\ server'[s].model = m
                       /\ server[s].meta = server'[s].meta /\ server[s].quiet
             finished == /\ server[s].stage = "half" /\ server'[s].model = m
                         /\ server'[s].meta = dir.meta /\ server[s].quiet
  <1>1. stayed \/ finished
    <2>1. ASSUME NEW r \in Trainings, TrainStep(r) PROVE stayed
      BY <2>1, TrainingsAside
    <2>2. ASSUME NEW q \in Servers, LoadModel(q) \/ LoadMeta(q) \/ Restart(q) PROVE stayed \/ finished
      BY <2>2, ServerMoves
    <2> QED
      BY <2>1, <2>2, ServersOrTrainings
  <1>2. m \in Trainings /\ training[m].stage \in Saved /\ server'[s].model = m
    BY <1>1 DEF Loaded
  <1>3. training[m].stage = "dead" \/ training[m].overlapped
    <2>1. CASE server[s].stage = "serving"
      BY <1>1, <2>1 DEF MixedPairHasACause
    <2>2. CASE server[s].stage = "half"
      <3>1. dir.model = m /\ \A k \in Trainings : training[k].stage \notin Busy
        BY <1>1, <2>2 DEF Quiet
      <3>2. dir.meta # m
        BY <1>1, <1>2, <2>2
      <3>3. training[m].stage = "done" \/ training[m].stage = "dead"
        BY <1>2, <3>1 DEF Saved, Busy
      <3> QED
        BY <1>2, <3>1, <3>2, <3>3 DEF Paired
    <2> QED
      BY <1>1, <2>1, <2>2
  <1> QED
    BY <1>2, <1>3, NoWayBack

-----------------------------------------------------------------------------
LEMMA ReleaseStart == RInit => ReleaseInv
  <1> SUFFICES ASSUME RInit PROVE ReleaseInv
    OBVIOUS
  <1>1. /\ \A r \in Trainings : training[r].stage = "idle"
        /\ \A s \in Servers : server[s].stage = "down"
        /\ dir = [model |-> None, meta |-> None]
    BY DEF RInit, Down
  <1>2. training \in [Trainings -> Training]
    BY DEF RInit, Training
  <1>3. server \in [Servers -> Server] /\ dir \in [model: File, meta: File]
    BY DEF RInit, Down, Server, File
  <1>4. RTypeOK
    BY <1>1, <1>2, <1>3 DEF RTypeOK
  <1> QED
    BY <1>1, <1>4, Outsiders DEF ReleaseInv, Alone, Paired, Quiet, Loaded, MixedPairHasACause, Busy

(***************************************************************************)
(* The inductive invariant of trainings and servers on one directory.      *)
(***************************************************************************)
THEOREM ReleaseInvariance == RSpec => []ReleaseInv
  <1>1. ReleaseInv /\ [RNext]_rvars => ReleaseInv'
    BY TypeStep, AloneStep, PairedStep, QuietStep, LoadedStep, MixedStep DEF ReleaseInv
  <1> QED
    BY <1>1, ReleaseStart, PTL DEF RSpec

(***************************************************************************)
(* A server that came up has two whole files, each by some training.       *)
(***************************************************************************)
THEOREM ReleaseTypes == RSpec => []RTypeOK
  BY ReleaseInvariance, PTL DEF ReleaseInv

(***************************************************************************)
(* A server that loaded while nobody saved pairs the files of two          *)
(* trainings only if the model's one died or was overlapped, however many  *)
(* trainings and servers share the directory and in whatever order.        *)
(***************************************************************************)
THEOREM MixedPairsHaveCauses == RSpec => []MixedPairHasACause
  BY ReleaseInvariance, PTL DEF ReleaseInv

-----------------------------------------------------------------------------
(* The threshold *)

LEMMA FractionOrder ==
    ASSUME NEW a \in Nat, NEW b \in Nat \ {0}, NEW c \in Nat, NEW d \in Nat \ {0},
           NEW e \in Nat, NEW f \in Nat \ {0}, a * d <= c * b, c * f <= e * d
    PROVE  a * f <= e * b
  <1>1. (a * d) * f <= (c * b) * f
    BY Z3
  <1>2. (c * f) * b <= (e * d) * b
    BY Z3
  <1>3. (a * f) * d <= (e * b) * d
    BY <1>1, <1>2, Z3
  <1> QED
    BY <1>3, Z3

\* AtMost orders the fractions: of any two one is at most the other, and it is
\* transitive because no denominator is zero.
Fraction == [num: Nat, den: Nat \ {0}]

LEMMA AtMostIsTotal == \A x, y \in Fraction : AtMost(x, y) \/ AtMost(y, x)
  <1> SUFFICES ASSUME NEW x \in Fraction, NEW y \in Fraction
               PROVE  AtMost(x, y) \/ AtMost(y, x)
    OBVIOUS
  <1>1. \A a, b \in Int : a <= b \/ b <= a
    OBVIOUS
  <1>2. \A a, b \in Int : a * b \in Int
    OBVIOUS
  <1>3. x.num \in Int /\ x.den \in Int /\ y.num \in Int /\ y.den \in Int
    BY DEF Fraction
  <1>4. x.num * y.den \in Int /\ y.num * x.den \in Int
    BY <1>2, <1>3
  <1> QED
    BY <1>1, <1>4 DEF AtMost

LEMMA AtMostIsTransitive ==
    \A x, y, z \in Fraction : AtMost(x, y) /\ AtMost(y, z) => AtMost(x, z)
  <1> SUFFICES ASSUME NEW x \in Fraction, NEW y \in Fraction, NEW z \in Fraction,
                      AtMost(x, y), AtMost(y, z)
               PROVE  AtMost(x, z)
    OBVIOUS
  <1>1. /\ x.num \in Nat /\ x.den \in Nat \ {0}
        /\ y.num \in Nat /\ y.den \in Nat \ {0}
        /\ z.num \in Nat /\ z.den \in Nat \ {0}
    BY DEF Fraction
  <1>2. x.num * y.den <= y.num * x.den /\ y.num * z.den <= z.num * y.den
    BY DEF AtMost
  <1>3. x.num * z.den <= z.num * x.den
    BY <1>1, <1>2, FractionOrder
  <1> QED
    BY <1>3 DEF AtMost

LEMMA ScoresAreFinite ==
    ASSUME NEW h \in Holdouts
    PROVE  Scores(h) \in SUBSET Int /\ IsFiniteSet(Scores(h))
  <1> DEFINE f == [i \in DOMAIN h |-> h[i].score]
  <1>1. IsFiniteSet(DOMAIN h) /\ \A i \in DOMAIN h : h[i].score \in Int
    BY ReleaseAssumption
  <1>2. f \in Surjection(DOMAIN h, Scores(h))
    BY DEF Surjection, Scores
  <1> HIDE DEF f
  <1>3. IsFiniteSet(Scores(h))
    BY <1>1, <1>2, FS_Surjection
  <1> QED
    BY <1>1, <1>3 DEF Scores

\* A point of the curve is a fraction: the threshold's own row is flagged.
LEMMA PointsAreFractions ==
    ASSUME NEW h \in Holdouts, NEW z \in Scores(h)
    PROVE  CurvePoint(h, z) \in Fraction
  <1> DEFINE R == {i \in DOMAIN h : h[i].score >= z}
  <1>1. IsFiniteSet(DOMAIN h) /\ \A i \in DOMAIN h : h[i].score \in Int
    BY ReleaseAssumption
  <1>2. PICK i \in DOMAIN h : h[i].score = z
    BY DEF Scores
  <1>3. i \in R
    BY <1>1, <1>2
  <1>4. R \in SUBSET DOMAIN h /\ Frauds(h) \in SUBSET DOMAIN h /\ R \cap Frauds(h) \in SUBSET DOMAIN h
    BY DEF Frauds
  <1>5. CurvePoint(h, z) = F1(h, R)
    BY DEF CurvePoint
  <1> HIDE DEF R
  <1>6. IsFiniteSet(R) /\ IsFiniteSet(Frauds(h)) /\ IsFiniteSet(R \cap Frauds(h))
    BY <1>1, <1>4, FS_Subset
  <1>7. /\ Cardinality(R) \in Nat /\ Cardinality(Frauds(h)) \in Nat
        /\ Cardinality(R \cap Frauds(h)) \in Nat
    BY <1>6, FS_CardinalityType
  <1>8. Cardinality(R) # 0
    BY <1>3, <1>6, FS_EmptySet
  <1>9. /\ 2 * Cardinality(R \cap Frauds(h)) \in Nat
        /\ Cardinality(R) + Cardinality(Frauds(h)) \in Nat \ {0}
    BY <1>7, <1>8
  <1> QED
    BY <1>5, <1>9 DEF F1, Fraction

\* A test set with rows has a best threshold.
LEMMA BestIsAPeak ==
    ASSUME NEW h \in Holdouts, Scores(h) # {}
    PROVE  BestThreshold(h) \in Peaks(h)
  <1> DEFINE R == {p \in Scores(h) \X Scores(h) : AtMost(CurvePoint(h, p[1]), CurvePoint(h, p[2]))}
  <1>1. \A x, y \in Scores(h) : <<x, y>> \in R <=> AtMost(CurvePoint(h, x), CurvePoint(h, y))
    OBVIOUS
  <1> HIDE DEF R
  <1>2. \A x, y \in Scores(h) : <<x, y>> \in R \/ <<y, x>> \in R
    BY <1>1, PointsAreFractions, AtMostIsTotal
  <1>3. \A x, y, z \in Scores(h) : <<x, y>> \in R /\ <<y, z>> \in R => <<x, z>> \in R
    BY <1>1, PointsAreFractions, AtMostIsTransitive
  <1>4. \E x \in Scores(h) : \A y \in Scores(h) : <<y, x>> \in R
    BY <1>2, <1>3, ScoresAreFinite, HasLast
  <1>5. Peaks(h) # {}
    BY <1>1, <1>4 DEF Peaks
  <1>6. Peaks(h) \in SUBSET Scores(h)
    BY DEF Peaks
  <1>7. Peaks(h) \in SUBSET Int /\ IsFiniteSet(Peaks(h))
    BY <1>6, ScoresAreFinite, FS_Subset
  <1>8. \E s \in Peaks(h) : \A z \in Peaks(h) : s <= z
    BY <1>5, <1>7, LeastInt
  <1> QED
    BY <1>8 DEF BestThreshold

(***************************************************************************)
(* As long as a server has both files of one training, no other threshold  *)
(* would have given that training's test rows a better F1 than the one     *)
(* /score compares with, whatever the scores, their ties and the labels.   *)
(***************************************************************************)
THEOREM ThresholdServedIsBest == RSpec => []ServedThresholdIsBest
  <1>1. RTypeOK => ServedThresholdIsBest
    <2> SUFFICES ASSUME RTypeOK, NEW s \in Servers, server[s].stage = "serving"
                 PROVE  LET h == training[server[s].meta].holdout
                        IN  \A z \in Scores(h) :
                               AtMost(F1(h, Flagged(h, z)), F1(h, Flagged(h, BestThreshold(h))))
      BY DEF ServedThresholdIsBest
    <2> DEFINE h == training[server[s].meta].holdout
    <2>1. h \in Holdouts
      BY DEF RTypeOK, Training
    <2> HIDE DEF h
    <2>2. SUFFICES ASSUME NEW z \in Scores(h)
                   PROVE  AtMost(F1(h, Flagged(h, z)), F1(h, Flagged(h, BestThreshold(h))))
      BY DEF h
    <2>3. \A t : F1(h, Flagged(h, t)) = CurvePoint(h, t)
      BY DEF Flagged, CurvePoint
    <2>4. BestThreshold(h) \in Peaks(h)
      BY <2>1, BestIsAPeak
    <2>5. AtMost(CurvePoint(h, z), CurvePoint(h, BestThreshold(h)))
      BY <2>4 DEF Peaks
    <2> QED
      BY <2>3, <2>5
  <1> QED
    BY <1>1, ReleaseTypes, PTL
=============================================================================
