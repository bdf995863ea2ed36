------------------------------- MODULE ClaimReady -------------------------------
(***************************************************************************)
(* Proof that Ready at the current generation means that this generation   *)
(* is applied (ReadyMeansApplied of ClaimSystem).  A pass works from a     *)
(* copy of the claim that an edit can outdate at any moment and judges     *)
(* progress by lagging informers.  That the status it stores is true all   *)
(* the same rests on what the pass knows of the steps behind it, and on    *)
(* the resourceVersion of the status update.                               *)
(* From the same knowledge follows which conditions Ready may leave at     *)
(* False (ReadyHasNoFalseCondition) and that the cloud-controller          *)
(* configuration keeps the client control plane (CcmKeepsClient).  The     *)
(* last section is about what a pass has waited for before it renders the  *)
(* client cluster (ClientClusterStartsLast).                               *)
(***************************************************************************)
EXTENDS ClaimGenerations

\* Time limits for the provers, in seconds.
USE SMTT(60), ZenonT(60)

\* What a pass that has gone beyond step s knows.
Done(s) ==
    /\ s.op = "ensure" => obj[s.res].guard = "held" /\ obj[s.res].gen >= my.gen
    /\ s.op = "await" /\ s.res \in Clusters => obj[s.res].level >= s.level
    /\ s.op = "await" /\ s.res = "ClusterClient" => cli
    /\ s.op = "reapply" => obj["CcmCsrc"].cli
    /\ s.op = "remote" => \A m \in ConfigMaps : remote[m] >= my.gen

\* A pass for a live claim has done every step before its own, and its own as far as it has come.
Progress ==
    mode = "pipeline" /\ claim.life = "live" =>
      /\ \A i \in 1..(step - 1) : Skipped(pipelineSteps[i], my.refs) \/ Done(pipelineSteps[i])
      /\ InStep("ensure") /\ sub = "finalize" => obj[Current.res].gen >= my.gen
      /\ InStep("remote") /\ sub \in MapNames =>
           \A m \in ConfigMaps : MapRank(m) < MapRank(sub) => remote[m] >= my.gen

-------------------------------------------------------------------------------
\* Arithmetic for the levels of a resource.
LEMMA Levels ==
    /\ 0 \in 0..2 /\ 1 \in 0..2 /\ 2 \in 0..2
    /\ \A a \in 0..2 : a <= a /\ (~(a < 1) => a >= 1) /\ (a >= 1 /\ a <= 1 => a = 1)
    /\ \A a, b \in 0..2 : a <= b => b >= a
  OBVIOUS

\* There is no level above 2.
LEMMA TopLevel ==
    ASSUME NEW a \in 0..2, a >= 2
    PROVE  a = 2
  OBVIOUS

\* One level up.
LEMMA LevelUp ==
    ASSUME NEW a \in 0..2, NEW b \in 0..2, a >= b
    PROVE  a + 1 >= b
  OBVIOUS

\* One level down.
LEMMA LevelDown ==
    ASSUME NEW a \in 0..2, NEW b \in 0..2, a > b
    PROVE  a - 1 >= b
  OBVIOUS

\* Levels in ascending order.
LEMMA LevelChain ==
    ASSUME NEW a \in 0..2, NEW b \in 0..2, NEW c \in 0..2
    PROVE  a <= b /\ b <= c => c >= a
  OBVIOUS

\* Levels in descending order.
LEMMA LevelChainDown ==
    ASSUME NEW a \in 0..2, NEW b \in 0..2, NEW c \in 0..2, a >= b, b >= c
    PROVE  a >= c
  OBVIOUS

\* Arithmetic for the numbers of the steps.
LEMMA StepNumbers ==
    ASSUME NEW m \in Nat, NEW n \in 0..(m + 1)
    PROVE  /\ n > 8 \/ n = 8 => n > 5
           /\ n > 13 \/ n = 13 => n > 9
           /\ n > 9 => n # 9
           /\ n >= 1 /\ n <= m => n \in 1..m
  OBVIOUS

\* What a jump of the step does not leap over is behind it.
LEMMA NotBetween ==
    ASSUME NEW m \in Nat, NEW n \in 1..m, NEW k \in 0..(m + 1), NEW j \in 1..(m + 1),
           j > n, ~(n \in (k + 1)..(j - 1))
    PROVE  k > n \/ k = n
  OBVIOUS

\* Arithmetic for the ranks of the ConfigMaps.
LEMMA Ranks ==
    ASSUME NEW a \in Nat, NEW b \in Nat, a < b
    PROVE  ~(b <= a)
  OBVIOUS

\* Arithmetic for generations.
LEMMA Generations ==
    ASSUME NEW a \in Nat, NEW b \in Nat, NEW c \in Nat
    PROVE  (a >= b /\ b >= c => a >= c) /\ (a >= b /\ a <= c => c >= b) /\ (a >= 1 /\ b <= 1 => a >= b)
  OBVIOUS

\* The numbers of the steps, one by one.
LEMMA NineteenSteps ==
    ASSUME NEW i \in 1..19
    PROVE  \/ i = 1 \/ i = 2 \/ i = 3 \/ i = 4 \/ i = 5 \/ i = 6 \/ i = 7 \/ i = 8 \/ i = 9 \/ i = 10
           \/ i = 11 \/ i = 12 \/ i = 13 \/ i = 14 \/ i = 15 \/ i = 16 \/ i = 17 \/ i = 18 \/ i = 19
  OBVIOUS

\* What is rendered and protected for a live claim stays so.
LEMMA Kept ==
    ASSUME TypeOK, LiveMove, NEW r \in Managed
    PROVE  /\ obj[r].guard = "held" => obj'[r].guard = "held"
           /\ obj[r].gen >= my.gen => obj'[r].gen >= my.gen
  <1>1. Grows(r, obj'[r])
    BY Zenon DEF LiveMove
  <1>2. obj[r].guard = "held" => obj'[r].guard = "held"
    BY Zenon, <1>1 DEF Grows
  <1>3. obj'[r].gen = obj[r].gen \/ obj'[r].gen = my.gen
    BY Zenon, <1>1 DEF Grows
  <1>4. my.gen \in Nat
    BY Zenon, GenTypes
  <1>5. obj[r].gen >= my.gen => obj'[r].gen >= my.gen
    BY <1>3, <1>4
  <1> QED
    BY Zenon, <1>2, <1>5

\* What a pass has done stays done while the claim is live and the pass goes on.
LEMMA DoneKept ==
    ASSUME TypeOK, TypeOK', Seen, claim.life = "live", mode = "pipeline", LiveMove, my' = my, cli => cli',
           NEW i \in 1..LastStep, Done(pipelineSteps[i])
    PROVE  Done(pipelineSteps[i])'
  <1> DEFINE s == pipelineSteps[i]
  <1>0. /\ my.gen \in Nat /\ Clusters \subseteq Managed /\ "CcmCsrc" \in Managed /\ ConfigMaps \subseteq MapNames
        /\ \A r \in Managed : obj[r].gen \in Nat
        /\ \A m \in MapNames : remote[m] \in Nat
    BY GenTypes, ConfigAssumption DEF Clusters, Managed, ClientOnly
  <1>1. s.op = "ensure" => s.res \in Managed
    BY Zenon, StepTypes
  <1> HIDE DEF s
  <1>2. s.op = "ensure" => obj'[s.res].guard = "held" /\ obj'[s.res].gen >= my.gen
    BY Zenon, <1>1, Kept DEF s, Done
  <1>3. s.op = "await" /\ s.res \in Clusters => obj'[s.res].level >= s.level
    <2>1. ASSUME NEW r \in Clusters PROVE obj'[r].level >= obj[r].level
      BY <1>0 DEF LiveMove, Grows
    <2>2. \A r \in Clusters : obj[r].level \in 0..2 /\ obj'[r].level \in 0..2
      <3>1. \A r \in Clusters : obj[r] \in Object /\ obj'[r] \in Object
        BY Zenon, <1>0 DEF TypeOK
      <3> QED
        BY <3>1 DEF Object
    <2>3. s.level \in {0, 1, 2}
      BY StepData DEF s
    <2> QED
      BY <2>1, <2>2, <2>3 DEF s, Done
  <1>4. s.op = "reapply" => obj'["CcmCsrc"].cli
    BY Zenon, <1>0 DEF s, Done, LiveMove, Grows, Seen, Alive
  <1>5. s.op = "remote" => \A m \in ConfigMaps : remote'[m] >= my.gen
    BY <1>0 DEF s, Done, LiveMove
  <1> QED
    BY ZenonT(60), <1>2, <1>3, <1>4, <1>5 DEF s, Done

\* A pass for a live claim keeps what it has done, and a step it leaves is done.
LEMMA ProgressKept ==
    ASSUME TypeOK, TypeOK', StepOK, Safe, Seen, Progress, ClaimMove, PassMove, claim.life = "live" => LiveMove
    PROVE  Progress'
  <1> DEFINE Behind(n) == \A i \in 1..n : Skipped(pipelineSteps[i], my'.refs) \/ Done(pipelineSteps[i])'
             Applied == InStep("ensure")' /\ sub' = "finalize" => obj'[Current'.res].gen >= my'.gen
             Mapped == InStep("remote")' /\ sub' \in MapNames =>
                         \A m \in ConfigMaps : MapRank(m) < MapRank(sub') => remote'[m] >= my'.gen
  <1> SUFFICES ASSUME mode' = "pipeline", claim'.life = "live" PROVE Behind(step' - 1) /\ Applied /\ Mapped
    BY Zenon DEF Progress
  <1>1. claim.life = "live" /\ LiveMove
    BY DEF ClaimMove
  <1>0. /\ my.gen \in Nat /\ step \in 0..(LastStep + 1) /\ LastStep \in Nat /\ ConfigMaps \subseteq MapNames
        /\ \A r \in Managed : obj[r].gen \in Nat
        /\ \A m \in MapNames : remote[m] \in Nat
    BY ZenonT(60), GenTypes, StepIndex, ConfigAssumption DEF TypeOK
  <1>2. ASSUME sub' = "apply" PROVE Applied /\ Mapped
    BY <1>2 DEF MapNames
  <1>3. ASSUME mode = "pipeline", my' = my, cli => cli', step \in 1..(LastStep + 1) PROVE Behind(step - 1)
    <2>1. ASSUME NEW i \in 1..(step - 1) PROVE Skipped(pipelineSteps[i], my'.refs) \/ Done(pipelineSteps[i])'
      <3>1. i \in 1..LastStep
        BY <1>0, <1>3
      <3>2. Skipped(pipelineSteps[i], my.refs) \/ Done(pipelineSteps[i])
        BY <1>1, <1>3 DEF Progress
      <3> QED
        BY ZenonT(60), <1>1, <1>3, <3>1, <3>2, DoneKept
    <2> QED
      BY <2>1
  <1>4. CASE UNCHANGED <<mode, my, mine, step, sub, cli, remote>>
    <2>1. mode = "pipeline" /\ my' = my /\ cli' = cli /\ step' = step /\ sub' = sub /\ remote' = remote
      BY <1>4
    <2>2. step \in 1..(LastStep + 1)
      BY <1>0, <2>1 DEF StepOK
    <2>3. Applied
      <3>1. SUFFICES ASSUME InStep("ensure"), sub = "finalize" PROVE obj'[Current.res].gen >= my.gen
        BY <2>1 DEF InStep, Current
      <3>2. obj[Current.res].gen >= my.gen
        BY Zenon, <1>1, <2>1, <3>1 DEF Progress
      <3>3. Current.res \in Managed
        BY Zenon, <3>1, CurrentTypes DEF InStep, Ops
      <3> QED
        BY ZenonT(60), <1>1, <3>2, <3>3, Kept
    <2>4. Mapped
      BY Zenon, <1>1, <2>1 DEF Progress, InStep, Current
    <2> QED
      BY ZenonT(60), <1>3, <2>1, <2>2, <2>3, <2>4
  <1>5. CASE ReconcileStart
    <2> DEFINE c == [cclaim EXCEPT !.fin = TRUE]
    <2>1. PICK j \in 1..(LastStep + 1) : NextStep(0, j, c.refs) /\ step' = j
      BY Zenon, <1>5 DEF ReconcileStart, BeginPipeline
    <2>2. my' = c /\ sub' = "apply"
      BY Zenon, <1>5 DEF ReconcileStart, BeginPipeline
    <2> HIDE DEF c
    <2>3. \A k \in 1..(j - 1) : Skipped(pipelineSteps[k], c.refs)
      BY <2>1 DEF NextStep
    <2> QED
      BY Zenon, <1>2, <2>1, <2>2, <2>3
  <1>6. CASE Continues
    <2>0. /\ mode = "pipeline" /\ step \in 1..LastStep /\ my' = my /\ cobj' = cobj
          /\ \/ cli' = cli
             \/ cli' /\ Current.op = "await"
      BY Zenon, <1>6, Continuing
    <2>1. cli => cli'
      BY Zenon, <2>0
    <2>2. Behind(step - 1)
      BY <1>0, <1>3, <2>0, <2>1
    <2>k. PICK k \in 1..LastStep : k = step
      BY <2>0
    <2> DEFINE s == pipelineSteps[k]
    <2>c. Current = s
      BY <2>k DEF Current
    <2>3. ASSUME NEW c, Proceed(c), Done(s)' PROVE Behind(step' - 1) /\ Applied /\ Mapped
      <3>1. PICK j \in 1..(LastStep + 1) : NextStep(step, j, my.refs) /\ step' = j
        BY Zenon, <2>3 DEF Proceed
      <3>2. sub' = "apply"
        BY Zenon, <2>3 DEF Proceed
      <3>3. ASSUME NEW i \in 1..(j - 1) PROVE Skipped(pipelineSteps[i], my'.refs) \/ Done(pipelineSteps[i])'
        <4>1. CASE i \in 1..(step - 1)
          BY <2>2, <4>1
        <4>2. CASE i = step
          BY <2>3, <2>k, <4>2
        <4>3. CASE i \in (step + 1)..(j - 1)
          BY <2>0, <3>1, <4>3 DEF NextStep
        <4> QED
          BY <1>0, <2>0, <4>1, <4>2, <4>3
      <3> QED
        BY ZenonT(60), <1>2, <3>1, <3>2, <3>3
    <2> HIDE DEF s, Behind, Applied, Mapped
    <2>4. CASE ensureResource
      <3>1. /\ InStep("ensure") \/ InStep("reapply")
            /\ Store(Current.res, ApplyTo(obj[Current.res], my.gen, Current.res = "CcmCsrc" /\ cli))
            /\ IF Current.op = "ensure"
               THEN sub' = "finalize" /\ UNCHANGED <<mode, my, mine, fresh, step, todo, lost, timer>>
               ELSE Proceed(Current.cond)
        BY Zenon, <2>4 DEF ensureResource
      <3>2. s.res \in Managed /\ obj \in [Managed -> Object] /\ cli \in BOOLEAN
        BY ZenonT(60), <2>c, <3>1, CurrentTypes DEF InStep, Ops, TypeOK
      <3>3. obj'[s.res] = ApplyTo(obj[s.res], my.gen, s.res = "CcmCsrc" /\ cli)
        BY <2>c, <3>1, <3>2 DEF Store
      <3>4. ASSUME NEW b \in BOOLEAN
            PROVE  ApplyTo(obj[s.res], my.gen, b).gen = my.gen /\ ApplyTo(obj[s.res], my.gen, b).cli = b
        BY <3>2 DEF ApplyTo, Object, Absent
      <3>5. CASE s.op = "ensure"
        <4>1. step' = step /\ sub' = "finalize"
          BY <2>c, <3>1, <3>5
        <4>2. Current' = s
          BY <2>k, <4>1 DEF Current, s
        <4>3. obj'[s.res].gen = my.gen
          BY Zenon, <3>2, <3>3, <3>4
        <4>4. Applied
          BY <1>0, <2>0, <4>2, <4>3 DEF Applied
        <4>5. Mapped
          BY <4>1 DEF Mapped, MapNames
        <4>6. Behind(step' - 1)
          BY <2>2, <4>1
        <4> QED
          BY <4>4, <4>5, <4>6
      <3>6. CASE s.op = "reapply"
        <4>1. k = 16 /\ s.res = "CcmCsrc" /\ s.when = "client"
          BY <3>6, StepData DEF s
        <4>2. ~Skipped(s, my.refs)
          BY <1>0, <2>0, <2>c DEF StepOK, Current
        <4>3. pipelineSteps[15] = stepWaitClientCPReady
          BY DEF pipelineSteps
        <4>4. Skipped(pipelineSteps[15], my.refs) \/ Done(pipelineSteps[15])
          <5>1. 15 \in 1..(step - 1)
            BY <2>k, <4>1
          <5> QED
            BY Zenon, <1>1, <2>0, <5>1 DEF Progress
        <4>5. ~Skipped(pipelineSteps[15], my.refs)
          BY <4>1, <4>2, <4>3 DEF Skipped, stepWaitClientCPReady, Await
        <4>6. cli
          BY <4>3, <4>4, <4>5 DEF Done, stepWaitClientCPReady, Await
        <4>7. obj'["CcmCsrc"].cli
          BY ZenonT(60), <3>2, <3>3, <3>4, <4>1, <4>6
        <4>8. Done(s)'
          BY <3>6, <4>7 DEF Done
        <4> QED
          BY ZenonT(60), <2>3, <2>c, <3>1, <3>6, <4>8
      <3> QED
        BY ZenonT(60), <2>c, <3>1, <3>5, <3>6 DEF InStep
    <2>5. CASE ensureResourceFinalizer
      <3>1. /\ s.op = "ensure" /\ InStep("ensure") /\ sub = "finalize" /\ Proceed(Current.cond) /\ cobj[s.res].there
            /\ \/ cobj[s.res].fin /\ obj' = obj
               \/ Store(s.res, [obj[s.res] EXCEPT !.guard = "held"])
        BY ZenonT(60), <2>5, <2>c DEF ensureResourceFinalizer, InStep, objects
      <3>2. s.res \in Managed /\ obj[s.res] \in Object /\ obj \in [Managed -> Object]
        BY ZenonT(60), <2>c, <3>1, CurrentTypes DEF InStep, Ops, TypeOK
      <3>3. obj'[s.res].guard = "held"
        <4>1. CASE cobj[s.res].fin /\ obj' = obj
          BY Zenon, <1>1, <3>2, <4>1 DEF Seen, Alive
        <4>2. CASE Store(s.res, [obj[s.res] EXCEPT !.guard = "held"])
          BY <3>2, <4>2 DEF Store, Object
        <4> QED
          BY <3>1, <4>1, <4>2
      <3>4. obj[s.res].gen >= my.gen
        BY Zenon, <1>1, <2>0, <2>c, <3>1 DEF Progress
      <3>5. obj'[s.res].gen >= my.gen
        BY ZenonT(60), <1>1, <3>2, <3>4, Kept
      <3>6. Done(s)'
        BY ZenonT(60), <2>0, <3>1, <3>3, <3>5 DEF Done
      <3> QED
        BY ZenonT(60), <2>3, <3>1, <3>6
    <2>g. ~GoIdle
      BY DEF GoIdle
    <2>6. CASE AwaitStep
      <3>1. /\ s.op = "await" /\ Proceed(Current.cond) /\ cobj[s.res].level >= s.level
            /\ cli' = (cli \/ s.res = "ClusterClient") /\ obj' = obj
        BY ZenonT(60), <2>6, <2>c, <2>g DEF AwaitStep, InStep, objects, Wait, TransientError, EndPass
      <3>2. ASSUME s.res \in Clusters PROVE obj'[s.res].level >= s.level
        <4>1. cobj[s.res].level <= obj[s.res].level
          BY Zenon, <1>1, <3>2 DEF Seen, Alive
        <4>2. s.res \in Managed
          BY ZenonT(60), <3>2 DEF Clusters, Managed, ClientOnly
        <4>3. obj[s.res] \in Object /\ cobj[s.res] \in View
          BY ZenonT(60), <4>2 DEF TypeOK
        <4>4. obj[s.res].level \in 0..2 /\ cobj[s.res].level \in 0..2
          BY ZenonT(60), <4>3 DEF Object, View
        <4>5. s.level \in {0, 1, 2}
          BY StepData DEF s
        <4>6. obj' = obj /\ cobj[s.res].level >= s.level
          BY Zenon, <3>1
        <4> QED
          BY <4>1, <4>4, <4>5, <4>6
      <3>3. Done(s)'
        BY Zenon, <3>1, <3>2 DEF Done
      <3> QED
        BY <2>3, <3>1, <3>3
    <2>7. CASE KmsStep
      <3>1. s.op = "kms" /\ \E c : Proceed(c)
        BY ZenonT(60), <2>7, <2>c, <2>g DEF KmsStep, InStep, Wait, EndPass
      <3>2. Done(s)'
        BY <3>1 DEF Done
      <3> QED
        BY ZenonT(60), <2>3, <3>1, <3>2
    <2>8. CASE RemoteConnect
      <3>1. s.op = "remote" /\ sub' = "infra" /\ step' = step
        BY ZenonT(60), <2>8, <2>c, <2>g DEF RemoteConnect, InStep, Wait, TransientError, EndPass
      <3>2. Behind(step' - 1)
        BY <2>2, <3>1
      <3>3. Applied
        BY <3>1 DEF Applied
      <3>4. \A m \in ConfigMaps : ~(MapRank(m) < MapRank("infra"))
        BY <1>0 DEF MapRank, MapNames
      <3>5. Mapped
        BY <3>1, <3>4 DEF Mapped
      <3> QED
        BY <3>2, <3>3, <3>5
    <2>9. CASE applyRemoteConfigMap
      <3>1. /\ s.op = "remote" /\ InStep("remote") /\ sub \in ConfigMaps
            /\ remote' = [remote EXCEPT ![sub] = my.gen]
            /\ \/ /\ \E m \in MapsAfter(sub) : FirstMap(m, MapsAfter(sub)) /\ sub' = m
                  /\ step' = step
               \/ MapsAfter(sub) = {} /\ Proceed(Current.cond)
        BY Zenon, <2>9, <2>c DEF applyRemoteConfigMap, InStep
      <3>2. \A m \in ConfigMaps : MapRank(m) < MapRank(sub) => remote[m] >= my.gen
        BY ZenonT(60), <1>0, <1>1, <2>0, <3>1 DEF Progress
      <3>3. ASSUME NEW m \in ConfigMaps, m \notin MapsAfter(sub) PROVE remote'[m] >= my.gen
        <4>1. m = sub \/ MapRank(m) < MapRank(sub)
          BY <1>0, <3>1, <3>3 DEF MapsAfter, MapRank, MapNames
        <4>2. remote \in [MapNames -> Nat] /\ m \in MapNames
          BY ZenonT(60), <1>0 DEF TypeOK
        <4>3. my.gen >= my.gen /\ remote'[m] = IF m = sub THEN my.gen ELSE remote[m]
          BY <1>0, <3>1, <4>2
        <4> QED
          BY ZenonT(60), <3>2, <4>1, <4>3
      <3>4. CASE MapsAfter(sub) = {} /\ Proceed(Current.cond)
        <4>1. Done(s)'
          BY ZenonT(60), <2>0, <3>1, <3>3, <3>4 DEF Done
        <4> QED
          BY ZenonT(60), <2>3, <3>4, <4>1
      <3>5. ASSUME NEW n \in MapsAfter(sub), FirstMap(n, MapsAfter(sub)), sub' = n, step' = step
            PROVE  Behind(step' - 1) /\ Applied /\ Mapped
        <4>1. Behind(step' - 1)
          BY <2>2, <3>5
        <4>2. n \in MapNames /\ n # "finalize"
          BY ZenonT(60), <1>0, <3>5 DEF MapsAfter, MapNames
        <4>3. Applied
          BY ZenonT(60), <3>5, <4>2 DEF Applied
        <4>4. ASSUME NEW m \in ConfigMaps, MapRank(m) < MapRank(n) PROVE m \notin MapsAfter(sub)
          <5>1. \A q \in MapNames : MapRank(q) \in Nat
            BY DEF MapRank, MapNames
          <5> QED
            BY ZenonT(60), <1>0, <3>5, <4>2, <4>4, <5>1, Ranks DEF FirstMap
        <4>5. Mapped
          BY ZenonT(60), <2>0, <3>3, <3>5, <4>4 DEF Mapped
        <4> QED
          BY ZenonT(60), <4>1, <4>3, <4>5
      <3> QED
        BY ZenonT(60), <3>1, <3>4, <3>5
    <2> QED
      BY ZenonT(60), <1>6, <2>4, <2>5, <2>6, <2>7, <2>8, <2>9 DEF Continues
  <1> QED
    BY Zenon, <1>4, <1>5, <1>6 DEF PassMove

\* Everything a spec requires is rendered by a step that this spec runs.
LEMMA Rendered ==
    ASSUME NEW refs, NEW r \in Required(refs)
    PROVE  \E i \in 1..LastStep : /\ pipelineSteps[i].op = "ensure" /\ pipelineSteps[i].res = r
                                  /\ ~Skipped(pipelineSteps[i], refs)
  <1> DEFINE Goal == \E i \in 1..LastStep : /\ pipelineSteps[i].op = "ensure" /\ pipelineSteps[i].res = r
                                            /\ ~Skipped(pipelineSteps[i], refs)
  <1>1. ASSUME NEW i \in 1..19, NEW c, NEW w, pipelineSteps[i] = Ensure(r, c, w),
               w = "always" \/ (w = "client" /\ ClientEnabled) \/ (w = "ref" /\ r \in refs)
        PROVE  Goal
    <2>1. pipelineSteps[i].op = "ensure" /\ pipelineSteps[i].res = r /\ pipelineSteps[i].when = w
      BY <1>1 DEF Ensure
    <2>2. ~Skipped(pipelineSteps[i], refs)
      BY <1>1, <2>1 DEF Skipped
    <2> QED
      BY ZenonT(60), <2>1, <2>2 DEF LastStep
  <1> SUFFICES Goal
    OBVIOUS
  <1> HIDE DEF Goal
  <1>2. CASE r = "Application"
    <2>1. 1 \in 1..19 /\ pipelineSteps[1] = Ensure(r, "ApplicationCreated", "always")
      BY <1>2 DEF pipelineSteps, stepApplication
    <2> QED
      BY <1>1, <1>2, <2>1
  <1>3. CASE r = "CertSetInfra"
    <2>1. 3 \in 1..19 /\ pipelineSteps[3] = Ensure(r, "", "always")
      BY <1>3 DEF pipelineSteps, stepCertificateSetInfra
    <2> QED
      BY Zenon, <1>1, <1>3, <2>1
  <1>4. CASE r = "ClusterInfra"
    <2>1. 5 \in 1..19 /\ pipelineSteps[5] = Ensure(r, "", "always")
      BY <1>4 DEF pipelineSteps, stepClusterInfra
    <2> QED
      BY Zenon, <1>1, <1>4, <2>1
  <1>5. CASE r = "CcmCsrc"
    <2>1. 11 \in 1..19 /\ pipelineSteps[11] = Ensure(r, "CcmCsrcCreated", "always")
      BY <1>5 DEF pipelineSteps, stepCcmCsrc
    <2> QED
      BY <1>1, <1>5, <2>1
  <1>6. CASE r = "CertSetClient" /\ ClientEnabled
    <2>1. 7 \in 1..19 /\ pipelineSteps[7] = Ensure(r, "", "client")
      BY <1>6 DEF pipelineSteps, stepCertificateSetClient
    <2> QED
      BY Zenon, <1>1, <1>6, <2>1
  <1>7. CASE r = "ClusterClient" /\ ClientEnabled
    <2>1. 14 \in 1..19 /\ pipelineSteps[14] = Ensure(r, "", "client")
      BY <1>7 DEF pipelineSteps, stepClusterClient
    <2> QED
      BY Zenon, <1>1, <1>7, <2>1
  <1>8. CASE r = "S3BucketClaim" /\ r \in refs
    <2>1. 2 \in 1..19 /\ pipelineSteps[2] = Ensure(r, "S3BucketClaimCreated", "ref")
      BY <1>8 DEF pipelineSteps, stepEnsureS3BucketClaim
    <2> QED
      BY <1>1, <1>8, <2>1
  <1>9. CASE r = "VaultClaim" /\ r \in refs
    <2>1. 9 \in 1..19 /\ pipelineSteps[9] = Ensure(r, "VaultClaimCreated", "ref")
      BY <1>9 DEF pipelineSteps, stepEnsureVaultClaim
    <2> QED
      BY <1>1, <1>9, <2>1
  <1>10. CASE r = "VaultSecretClaim" /\ r \in refs
    <2>1. 10 \in 1..19 /\ pipelineSteps[10] = Ensure(r, "VaultSecretClaimCreated", "ref")
      BY <1>10 DEF pipelineSteps, stepEnsureVaultSecretClaim
    <2> QED
      BY <1>1, <1>10, <2>1
  <1> QED
    BY ZenonT(60), <1>2, <1>3, <1>4, <1>5, <1>6, <1>7, <1>8, <1>9, <1>10 DEF Required, ClientOnly, Optional

\* A pass for a live claim that has gone beyond the last step has applied everything.
LEMMA AllDone ==
    ASSUME TypeOK, StepOK, Seen, Progress, mode = "pipeline", step > LastStep, claim.life = "live"
    PROVE  /\ \A r \in Required(my.refs) :
                /\ obj[r].guard = "held" /\ obj[r].gen >= my.gen
                /\ r \in {"ClusterInfra", "ClusterClient"} => obj[r].level = MaxLevel[r]
           /\ ClientEnabled => obj["CcmCsrc"].cli
           /\ RemoteConfig \in my.refs => \A m \in ConfigMaps : remote[m] >= my.gen
  <1>1. ASSUME NEW i \in 1..19, ~Skipped(pipelineSteps[i], my.refs) PROVE Done(pipelineSteps[i])
    <2>1. step \in 0..(LastStep + 1)
      BY Zenon DEF TypeOK
    <2>2. i \in 1..(step - 1)
      BY <2>1 DEF LastStep
    <2> QED
      BY Zenon, <1>1, <2>2 DEF Progress
  <1>2. ASSUME NEW r \in Required(my.refs) PROVE obj[r].guard = "held" /\ obj[r].gen >= my.gen
    <2>1. PICK i \in 1..19 : /\ pipelineSteps[i].op = "ensure" /\ pipelineSteps[i].res = r
                             /\ ~Skipped(pipelineSteps[i], my.refs)
      BY Rendered DEF LastStep
    <2> QED
      BY ZenonT(60), <1>1, <2>1 DEF Done
  <1>3. \A r \in Clusters : obj[r].level \in 0..2 /\ obj[r].level <= MaxLevel[r]
    <2>1. Clusters \subseteq Managed /\ obj \in [Managed -> Object]
      BY Zenon DEF Clusters, Managed, ClientOnly, TypeOK
    <2> QED
      BY ZenonT(60), <2>1 DEF Seen, Alive, Object
  <1>4. MaxLevel["ClusterInfra"] = 2 /\ MaxLevel["ClusterClient"] = 1
    BY DEF MaxLevel, Managed, ClientOnly
  <1>5. obj["ClusterInfra"].level = MaxLevel["ClusterInfra"]
    <2>1. pipelineSteps[8] = Await("ClusterInfra", 2, "InfraCPReady", "always") /\ 8 \in 1..19
      BY DEF pipelineSteps, stepWaitInfraCPReady
    <2>2. Done(pipelineSteps[8])
      <3>1. ~Skipped(pipelineSteps[8], my.refs)
        BY <2>1 DEF Skipped, Await
      <3> QED
        BY ZenonT(60), <1>1, <2>1, <3>1
    <2>3. obj["ClusterInfra"].level >= 2
      BY <2>1, <2>2 DEF Done, Await, Clusters
    <2> QED
      BY <1>3, <1>4, <2>3 DEF Clusters
  <1>6. ASSUME ClientEnabled PROVE obj["ClusterClient"].level = MaxLevel["ClusterClient"] /\ obj["CcmCsrc"].cli
    <2>1. pipelineSteps[15] = Await("ClusterClient", 1, "ClientCPReady", "client") /\ 15 \in 1..19
      BY DEF pipelineSteps, stepWaitClientCPReady
    <2>2. Done(pipelineSteps[15])
      <3>1. ~Skipped(pipelineSteps[15], my.refs)
        BY <1>6, <2>1 DEF Skipped, Await
      <3> QED
        BY ZenonT(60), <1>1, <2>1, <3>1
    <2>3. obj["ClusterClient"].level >= 1
      BY <2>1, <2>2 DEF Done, Await, Clusters
    <2>4. pipelineSteps[16].op = "reapply" /\ pipelineSteps[16].when = "client" /\ 16 \in 1..19
      <3>1. pipelineSteps[16] = stepCcmCsrcUpdate
        BY DEF pipelineSteps
      <3>2. stepCcmCsrcUpdate.op = "reapply" /\ stepCcmCsrcUpdate.when = "client"
        BY DEF stepCcmCsrcUpdate
      <3>3. 16 \in 1..19
        OBVIOUS
      <3> QED
        BY Zenon, <3>1, <3>2, <3>3
    <2>5. Done(pipelineSteps[16])
      <3>1. ~Skipped(pipelineSteps[16], my.refs)
        BY <1>6, <2>4 DEF Skipped
      <3> QED
        BY ZenonT(60), <1>1, <2>4, <3>1
    <2>6. obj["CcmCsrc"].cli
      BY Zenon, <2>4, <2>5 DEF Done
    <2>7. "ClusterClient" \in Clusters
      BY Zenon DEF Clusters
    <2>8. obj["ClusterClient"].level \in 0..2 /\ obj["ClusterClient"].level <= 1
      BY ZenonT(60), <1>3, <1>4, <2>7
    <2>9. obj["ClusterClient"].level = 1
      BY ZenonT(60), <2>3, <2>8, Levels
    <2> QED
      BY ZenonT(60), <1>4, <2>6, <2>9
  <1>7. "ClusterClient" \in Required(my.refs) => ClientEnabled
    BY DEF Required, Optional
  <1>8. ASSUME RemoteConfig \in my.refs, NEW m \in ConfigMaps PROVE remote[m] >= my.gen
    <2>1. pipelineSteps[12] = stepRemoteConfigMaps /\ 12 \in 1..19
      BY DEF pipelineSteps
    <2>2. Done(pipelineSteps[12])
      <3>1. ~Skipped(pipelineSteps[12], my.refs)
        BY <1>8, <2>1 DEF Skipped, stepRemoteConfigMaps
      <3> QED
        BY ZenonT(60), <1>1, <2>1, <3>1
    <2> QED
      BY <2>1, <2>2 DEF Done, stepRemoteConfigMaps
  <1> QED
    BY ZenonT(60), <1>2, <1>5, <1>6, <1>7, <1>8

\* Ready at the current generation is stored only for, and stays true of, what has been applied.
LEMMA ReadyKept ==
    ASSUME TypeOK, TypeOK', StepOK, Seen, Ordered, Progress, Dated, ReadyMeansApplied, StatusMove,
           claim.life = "live" => LiveMove
    PROVE  ReadyMeansApplied'
  <1> SUFFICES ASSUME claim'.status.phase = "Ready", claim'.status.gen = claim'.gen
               PROVE  /\ \A r \in Required(claim'.refs) :
                           /\ obj'[r].guard = "held" /\ obj'[r].gen >= claim'.gen
                           /\ r \in {"ClusterInfra", "ClusterClient"} => obj'[r].level = MaxLevel[r]
                      /\ ClientEnabled => obj'["CcmCsrc"].cli
                      /\ RemoteConfig \in claim'.refs => \A m \in ConfigMaps : remote'[m] >= claim'.gen
    BY Zenon DEF ReadyMeansApplied
  <1>0. /\ claim.gen \in Nat /\ my.gen \in Nat /\ claim.status.gen \in Nat
        /\ \A r \in Managed : obj[r].gen \in Nat
        /\ \A m \in MapNames : remote[m] \in Nat
    <2>1. claim.status.gen \in Nat
      BY Zenon DEF TypeOK, Claim, Status
    <2> QED
      BY ZenonT(60), <2>1, GenTypes
  <1>1. CASE claim'.status = claim.status /\ claim'.gen = claim.gen /\ claim'.refs = claim.refs
    <2>1. /\ \A r \in Required(claim.refs) :
               /\ obj[r].guard = "held" /\ obj[r].gen >= claim.gen
               /\ r \in {"ClusterInfra", "ClusterClient"} => obj[r].level = MaxLevel[r]
          /\ ClientEnabled => obj["CcmCsrc"].cli
          /\ RemoteConfig \in claim.refs => \A m \in ConfigMaps : remote[m] >= claim.gen
      BY Zenon, <1>1 DEF ReadyMeansApplied
    <2>2. claim.life = "live" /\ LiveMove
      BY Zenon, <1>1 DEF Dated
    <2>3. /\ Required(claim.refs) \subseteq Managed /\ "Application" \in Required(claim.refs)
          /\ "CcmCsrc" \in Managed /\ ConfigMaps \subseteq MapNames
      BY ConfigAssumption DEF Required, Managed, ClientOnly, Optional
    <2>4. mode = "pipeline" => my.gen >= claim.gen
      <3>1. obj["Application"].gen >= claim.gen /\ obj["Application"].gen \in Nat
        BY ZenonT(60), <1>0, <2>1, <2>3
      <3>2. mode = "pipeline" => obj["Application"].gen <= my.gen
        BY <2>3 DEF Ordered
      <3> QED
        BY ZenonT(60), <1>0, <3>1, <3>2, Generations
    <2>5. ASSUME NEW r \in Required(claim.refs)
          PROVE  /\ obj'[r].guard = "held" /\ obj'[r].gen >= claim.gen
                 /\ r \in {"ClusterInfra", "ClusterClient"} => obj'[r].level = MaxLevel[r]
      <3>1. r \in Managed /\ Grows(r, obj'[r])
        BY <2>2, <2>3 DEF LiveMove
      <3>2. obj'[r].guard = "held" /\ obj'[r].gen >= claim.gen
        BY ZenonT(60), <1>0, <2>1, <2>4, <3>1 DEF Grows
      <3>3. obj[r].level \in 0..2 /\ obj'[r].level \in 0..2 /\ MaxLevel[r] \in 0..2
        <4>1. obj[r] \in Object /\ obj'[r] \in Object
          BY ZenonT(60), <3>1 DEF TypeOK
        <4> QED
          BY <3>1, <4>1 DEF Object, MaxLevel
      <3>4. r \in {"ClusterInfra", "ClusterClient"} => obj'[r].level = MaxLevel[r]
        <4>1. r \in {"ClusterInfra", "ClusterClient"} =>
                /\ obj[r].level = MaxLevel[r] /\ obj'[r].level >= obj[r].level
                /\ obj[r].level <= MaxLevel[r] => obj'[r].level <= MaxLevel[r]
          BY Zenon, <2>1, <3>1 DEF Grows, Clusters
        <4> QED
          BY <3>3, <4>1
      <3> QED
        BY ZenonT(60), <3>2, <3>4
    <2>6. ClientEnabled => obj'["CcmCsrc"].cli
      BY Zenon, <2>1, <2>2, <2>3 DEF LiveMove, Grows, Seen, Alive
    <2>7. RemoteConfig \in claim.refs => \A m \in ConfigMaps : remote'[m] >= claim.gen
      BY ZenonT(60), <1>0, <2>1, <2>2, <2>3, <2>4 DEF LiveMove
    <2> QED
      BY Zenon, <1>1, <2>5, <2>6, <2>7
  <1>2. CASE /\ claim'.gen = claim.gen /\ claim'.refs = claim.refs /\ obj' = obj /\ remote' = remote
             /\ mode = "pipeline" /\ step > LastStep /\ fresh
    <2>1. claim.life = "live" /\ claim.gen = my.gen /\ claim.refs = my.refs
      BY ZenonT(60), <1>2 DEF Dated
    <2> QED
      BY Zenon, <1>2, <2>1, AllDone
  <1>3. claim.status.gen # claim.gen + 1
    BY <1>0 DEF Dated
  <1> QED
    BY Zenon, <1>1, <1>2, <1>3 DEF StatusMove

\* Nothing is reported and nothing is known of the claim just created.
LEMMA InitReady == Init => Seen /\ Ordered /\ Progress /\ Dated /\ ReadyMeansApplied
  <1> SUFFICES ASSUME Init PROVE Seen /\ Ordered /\ Progress /\ Dated /\ ReadyMeansApplied
    OBVIOUS
  <1>1. /\ claim = [NoClaim EXCEPT !.life = "live", !.gen = 1, !.refs = InitialRefs]
        /\ cclaim = NoClaim /\ mode = "idle" /\ remote = [m \in MapNames |-> 0]
        /\ obj = [r \in Managed |-> Absent] /\ cobj = [r \in Managed |-> ViewOf(r, Absent)]
    BY Zenon DEF Init
  <1>2. /\ mode # "pipeline" /\ claim.life = "live" /\ ~claim.fg /\ claim.gen = 1
        /\ claim.status.phase = "" /\ claim.status.gen = 0 /\ cclaim.gen = 0
    BY Zenon, <1>1 DEF NoClaim, NoStatus
  <1>3. /\ \A r \in Managed : /\ ~obj[r].del /\ ~cobj[r].fin /\ obj[r].level = 0 /\ cobj[r].level = 0
                              /\ obj[r].gen = 0 /\ ~obj[r].cli
        /\ \A m \in MapNames : remote[m] = 0
    BY Zenon, <1>1 DEF Absent, ViewOf
  <1>4. Clusters \subseteq Managed /\ "CcmCsrc" \in Managed /\ \A r \in Managed : MaxLevel[r] \in 0..2
    BY DEF Clusters, Managed, ClientOnly, MaxLevel
  <1>5. Seen
    <2>1. \A r \in Clusters : cobj[r].level <= obj[r].level /\ obj[r].level <= MaxLevel[r]
      BY <1>3, <1>4
    <2> QED
      BY ZenonT(60), <1>2, <1>3, <1>4, <2>1 DEF Seen
  <1>6. Ordered
    <2>1. /\ \A r \in Managed : obj[r].gen = 0
          /\ \A m \in MapNames : remote[m] = 0
          /\ cclaim.gen = 0 /\ mode # "pipeline"
      BY Zenon, <1>2, <1>3
    <2> QED
      BY <2>1 DEF Ordered
  <1>7. Progress
    BY Zenon, <1>2 DEF Progress
  <1>8. Dated
    <2>1. claim.status.gen = 0 /\ claim.gen = 1
      BY Zenon, <1>2
    <2>2. claim.status.gen <= claim.gen
      BY <2>1
    <2> QED
      BY Zenon, <1>2, <2>2 DEF Dated
  <1>9. claim.status.phase # "Ready"
    BY Zenon, <1>2
  <1> QED
    BY ZenonT(60), <1>5, <1>6, <1>7, <1>8, <1>9 DEF ReadyMeansApplied

\* What is known in every state of the claim, of its resources and of the running pass.
Knowledge == Held /\ Seen /\ Ordered /\ Progress /\ Dated /\ ReadyMeansApplied

\* From the moves of a step, by the lemmas above.
LEMMA Known == Spec => []Knowledge
  <1>1. Init => Knowledge
    BY InitHeld, InitReady DEF Knowledge
  <1>2. TypeOK /\ StepOK /\ Safe /\ TypeOK' /\ Knowledge /\ [Next]_vars => Knowledge'
    <2> SUFFICES ASSUME TypeOK, StepOK, Safe, TypeOK', Knowledge, [Next]_vars PROVE Knowledge'
      OBVIOUS
    <2>0. Held /\ Seen /\ Ordered /\ Progress /\ Dated /\ ReadyMeansApplied
      BY Zenon DEF Knowledge
    <2>1. PauseMove /\ ClaimMove /\ ObjectsMove /\ WriteMove /\ WorkerMove /\ PassMove
      BY ZenonT(60), PauseMoves, ClaimMoves, ObjectMoves, WriteMoves, WorkerMoves, PassMoves
    <2>2. StatusMove
      BY Zenon, <2>0, StatusMoves
    <2>3. (Alive => LiveMove) /\ (claim.life = "live" => LiveMove)
      BY Zenon, <2>0, LiveMoves DEF Alive
    <2>4. Held'
      BY Zenon, <2>0, <2>1, HeldKept
    <2>5. Seen'
      BY Zenon, <2>0, <2>1, <2>3, SeenKept
    <2>6. Ordered'
      BY Zenon, <2>0, <2>1, OrderedKept
    <2>7. Progress'
      BY ZenonT(60), <2>0, <2>1, <2>3, ProgressKept
    <2>8. Dated'
      BY Zenon, <2>0, <2>1, <2>2, DatedKept
    <2>9. ReadyMeansApplied'
      BY Zenon, <2>0, <2>2, <2>3, ReadyKept
    <2> QED
      BY ZenonT(60), <2>4, <2>5, <2>6, <2>7, <2>8, <2>9 DEF Knowledge
  <1> QED
    BY <1>1, <1>2, TypeCorrect, Safety, PTL DEF Spec

(***************************************************************************)
(* Phase Ready at the current generation means that everything the spec    *)
(* requires was rendered from it, is protected by the finalizer and, for   *)
(* clusters, has its control plane initialized; and that the remote        *)
(* ConfigMaps were written from it.  Neither spec edits during a pass, nor *)
(* lagging informers, conflicts, failing calls or restarts produce it      *)
(* early, and no later pass makes it untrue.                               *)
(***************************************************************************)
THEOREM ReadyIsTrue == Spec => []ReadyMeansApplied
  <1>1. Knowledge => ReadyMeansApplied
    BY Zenon DEF Knowledge
  <1> QED
    BY <1>1, Known, PTL

(***************************************************************************)
(* Where claims are not deleted in the foreground, no pass takes the       *)
(* client control plane out of the cloud-controller configuration again    *)
(* (CcmKeepsClient): a pass that starts after it was rendered in has it    *)
(* from the informer's client cluster, which only the delete passes take   *)
(* away, and they come after every pipeline pass.                          *)
(***************************************************************************)
THEOREM ClientStaysConfigured ==
    ASSUME TRUE \notin Foreground
    PROVE  Spec => CcmKeepsClient
  <1>1. TypeOK /\ StepOK /\ Safe /\ Seen /\ [Next]_vars =>
          (obj["CcmCsrc"].cli /\ obj'["CcmCsrc"].there => obj'["CcmCsrc"].cli)
    <2> SUFFICES ASSUME TypeOK, StepOK, Safe, Seen, [Next]_vars, obj["CcmCsrc"].cli, obj'["CcmCsrc"].there
                 PROVE  obj'["CcmCsrc"].cli
      OBVIOUS
    <2>0. "CcmCsrc" \in Managed /\ obj \in [Managed -> Object] /\ obj["CcmCsrc"] \in Object
      BY Zenon DEF TypeOK, Managed
    <2>1. CASE Alive
      BY Zenon, <2>0, <2>1, LiveMoves DEF LiveMove, Grows, Seen
    <2>2. CASE ~Alive
      <3>1. mode # "pipeline"
        BY ZenonT(60), <2>2 DEF Alive, Working, Safe, LifeKnown
      <3>2. obj'["CcmCsrc"] = obj["CcmCsrc"] \/ ObjectMove("CcmCsrc", obj'["CcmCsrc"])
        BY Zenon, <2>0, ObjectMoves, OneObject
      <3>3. ReleaseOf("CcmCsrc", obj["CcmCsrc"]) = Absent \/ ReleaseOf("CcmCsrc", obj["CcmCsrc"]).cli = obj["CcmCsrc"].cli
        <4>1. [obj["CcmCsrc"] EXCEPT !.guard = "released"].cli = obj["CcmCsrc"].cli
          BY ZenonT(60), <2>0 DEF Object
        <4> QED
          BY Zenon, <4>1 DEF ReleaseOf
      <3>4. ~Absent.there
        BY DEF Absent
      <3> QED
        BY ZenonT(60), <3>1, <3>2, <3>3, <3>4 DEF ObjectMove
    <2> QED
      BY <2>1, <2>2
  <1>2. Knowledge => Seen
    BY Zenon DEF Knowledge
  <1> QED
    BY <1>1, <1>2, Known, TypeCorrect, Safety, PTL DEF Spec, CcmKeepsClient

-------------------------------------------------------------------------------
(***************************************************************************)
(* The transit keys of the VaultClaims that the informer shows.            *)
(***************************************************************************)
\* Some generation up to n has no transit keys in its VaultClaim.
Keyless(n) == \E g \in 1..n : g \notin KeyedGens

\* The informer shows a VaultClaim without them.
KeylessView == cobj["VaultClaim"].there /\ ~cobj["VaultClaim"].keys

\* Every generation that is read or rendered is one of a claim that was created, and a VaultClaim without
\* keys that the informer shows was rendered from one that the informer, or the pass, has not outlived.
Numbered ==
    /\ claim.gen >= 1 /\ (cclaim.life = "live" => cclaim.gen >= 1) /\ (mode = "pipeline" => my.gen >= 1)
    /\ \A r \in Managed : obj[r].there => obj[r].gen >= 1
    /\ KeylessView => Keyless(cclaim.gen) /\ (mode = "pipeline" => Keyless(my.gen))

\* A generation without keys counts for every later one.
LEMMA KeylessFrom ==
    ASSUME NEW m \in Nat, NEW n \in Nat, m <= n \/ n >= m
    PROVE  /\ Keyless(m) => Keyless(n)
           /\ m >= 1 /\ m \notin KeyedGens => Keyless(n)
  BY DEF Keyless

\* Generations start at 1 and are only copied.
LEMMA NumberedKept ==
    ASSUME TypeOK, TypeOK', Held, Ordered, Numbered, PauseMove, ClaimMove, WorkerMove, ObjectsMove
    PROVE  Numbered'
  <1>0. /\ claim \in Claim /\ cclaim \in Claim /\ claim.gen \in Nat /\ claim'.gen \in Nat
        /\ obj \in [Managed -> Object] /\ cobj \in [Managed -> View]
        /\ cclaim.gen \in Nat /\ cclaim'.gen \in Nat /\ my.gen \in Nat
    BY ZenonT(60) DEF TypeOK, Claim
  <1>n. /\ claim.gen >= 1 /\ (cclaim.life = "live" => cclaim.gen >= 1) /\ (mode = "pipeline" => my.gen >= 1)
        /\ \A r \in Managed : obj[r].there => obj[r].gen >= 1
        /\ KeylessView => Keyless(cclaim.gen) /\ (mode = "pipeline" => Keyless(my.gen))
    BY ZenonT(60) DEF Numbered
  <1>1. claim'.gen >= 1
    BY <1>0, <1>n DEF PauseMove
  <1>2. cclaim'.life = "live" => cclaim'.gen >= 1
    BY Zenon, <1>n DEF ClaimMove
  <1>3. mode' = "pipeline" => my'.gen >= 1
    <2>1. [cclaim EXCEPT !.fin = TRUE].gen = cclaim.gen
      BY Zenon, <1>0 DEF Claim
    <2>2. CASE UNCHANGED <<mode, my, todo>>
      BY ZenonT(60), <1>n, <2>2
    <2>3. CASE cclaim.life = "live" /\ my' = [cclaim EXCEPT !.fin = TRUE]
      BY ZenonT(60), <1>n, <2>1, <2>3
    <2>4. "idle" # "pipeline" /\ "delete" # "pipeline"
      OBVIOUS
    <2> QED
      BY ZenonT(60), <2>2, <2>3, <2>4 DEF WorkerMove
  <1>4. ASSUME NEW r \in Managed, obj'[r].there PROVE obj'[r].gen >= 1
    <2>0. obj[r] \in Object /\ ~Absent.there
      BY ZenonT(60), <1>0 DEF Absent
    <2>1. CASE obj'[r] = obj[r]
      BY ZenonT(60), <1>4, <1>n, <2>1
    <2>2. CASE ObjectMove(r, obj'[r])
      <3>1. LET o == [obj[r] EXCEPT !.guard = "held"] IN o.there = obj[r].there /\ o.gen = obj[r].gen
        BY Zenon, <2>0 DEF Object
      <3>2. LET o == [obj[r] EXCEPT !.guard = "released"] IN o.there = obj[r].there /\ o.gen = obj[r].gen
        BY Zenon, <2>0 DEF Object
      <3>3. ReleaseOf(r, obj[r]) \in {Absent, [obj[r] EXCEPT !.guard = "released"]}
        BY Zenon DEF ReleaseOf
      <3>4. \/ mode = "pipeline" /\ obj'[r].gen = my.gen
            \/ obj'[r].there = obj[r].there /\ obj'[r].gen = obj[r].gen
            \/ obj'[r] = Absent
        BY ZenonT(60), <2>2, <3>1, <3>2, <3>3 DEF ObjectMove
      <3> QED
        BY ZenonT(60), <1>4, <1>n, <2>0, <3>4
    <2> QED
      BY ZenonT(60), <2>1, <2>2, OneObject
  <1>5. cclaim'.gen >= cclaim.gen
    BY <1>0 DEF ClaimMove, Held, Bounded
  <1>6. ASSUME KeylessView' PROVE Keyless(cclaim.gen) /\ (mode = "pipeline" => Keyless(my.gen))
    <2>0. PICK v \in Managed : v = "VaultClaim"
      BY DEF Managed, Optional
    <2>1. CASE cobj'[v] = cobj[v]
      BY ZenonT(60), <1>6, <1>n, <2>0, <2>1 DEF KeylessView
    <2>2. CASE cobj'[v] = ViewOf(v, obj[v])
      <3>1. /\ ViewOf(v, obj[v]).keys = (obj[v].there /\ obj[v].gen \in KeyedGens)
            /\ ViewOf(v, obj[v]).there = obj[v].there
        BY ZenonT(60), <2>0 DEF ViewOf
      <3>2. obj[v].there /\ obj[v].gen \notin KeyedGens
        BY ZenonT(60), <1>6, <2>0, <2>2, <3>1 DEF KeylessView
      <3>3. obj[v].gen \in Nat /\ obj[v].gen >= 1
        BY ZenonT(60), <1>0, <1>n, <3>2 DEF Object
      <3>4. obj[v].gen <= cclaim.gen /\ (mode = "pipeline" => obj[v].gen <= my.gen)
        BY Zenon DEF Ordered
      <3> QED
        BY ZenonT(60), <1>0, <3>2, <3>3, <3>4, KeylessFrom
    <2> QED
      BY ZenonT(60), <2>1, <2>2 DEF ObjectsMove
  <1>7. Keyless(cclaim.gen) => Keyless(cclaim'.gen)
    BY ZenonT(60), <1>0, <1>5, KeylessFrom
  <1>8. mode' = "pipeline" => my'.gen = cclaim.gen \/ (mode = "pipeline" /\ my' = my)
    <2>1. [cclaim EXCEPT !.fin = TRUE].gen = cclaim.gen
      BY Zenon, <1>0 DEF Claim
    <2>2. "idle" # "pipeline" /\ "delete" # "pipeline"
      OBVIOUS
    <2> QED
      BY ZenonT(60), <2>1, <2>2 DEF WorkerMove
  <1>9. KeylessView' => Keyless(cclaim'.gen) /\ (mode' = "pipeline" => Keyless(my'.gen))
    BY ZenonT(60), <1>6, <1>7, <1>8
  <1> QED
    BY ZenonT(60), <1>1, <1>2, <1>3, <1>4, <1>9 DEF Numbered

\* Numbered is an invariant.
LEMMA NumberedAlways == Spec => []Numbered
  <1>1. Init => Numbered
    <2> SUFFICES ASSUME Init PROVE Numbered
      OBVIOUS
    <2>1. /\ claim = [NoClaim EXCEPT !.life = "live", !.gen = 1, !.refs = InitialRefs] /\ cclaim = NoClaim /\ mode = "idle"
          /\ obj = [r \in Managed |-> Absent] /\ cobj = [r \in Managed |-> ViewOf(r, Absent)]
      BY Zenon DEF Init
    <2>2. claim.gen = 1 /\ cclaim.life # "live" /\ mode # "pipeline" /\ 1 >= 1
      BY <2>1 DEF NoClaim
    <2>3. \A r \in Managed : obj[r] = Absent /\ cobj[r] = ViewOf(r, Absent)
      BY ZenonT(60), <2>1
    <2>4. ~Absent.there /\ (\A r : ~ViewOf(r, Absent).there)
      BY DEF Absent, ViewOf
    <2>5. "VaultClaim" \in Managed
      BY DEF Managed, Optional
    <2> QED
      BY ZenonT(60), <2>2, <2>3, <2>4, <2>5 DEF Numbered, KeylessView
  <1>2. TypeOK /\ StepOK /\ TypeOK' /\ Knowledge /\ Numbered /\ [Next]_vars => Numbered'
    BY ZenonT(60), PauseMoves, ClaimMoves, WorkerMoves, ObjectMoves, NumberedKept DEF Knowledge
  <1> QED
    BY <1>1, <1>2, TypeCorrect, Safety, Known, PTL DEF Spec

-------------------------------------------------------------------------------
(***************************************************************************)
(* Ready and the conditions at False (ReadyHasNoFalseCondition).           *)
(***************************************************************************)
\* The conditions that a pass at step i may still set, and those of the steps it does not skip.
Pending(i, refs) ==
    {"Ready"} \union
    {c \in Conditions : \E k \in i..LastStep : ~Skipped(pipelineSteps[k], refs) /\ pipelineSteps[k].cond = c}

\* The conditions that a pass may leave at False: those of the steps it skips, and that of the KMS barrier
\* where some generation up to n has no transit keys.
Excused(refs, n) ==
    {c \in Conditions : \E i \in 1..LastStep :
       /\ pipelineSteps[i].cond = c
       /\ Skipped(pipelineSteps[i], refs) \/ (pipelineSteps[i].op = "kms" /\ Keyless(n))}

\* The conditions that passes set to False.
StepConditions == {"Ready"} \union {c \in Conditions : \E i \in 1..LastStep : pipelineSteps[i].cond = c}

\* A condition at False belongs to a step, and in a pass to one that it will come to or that excuses it.
Waits ==
    /\ claim.life = "live" => claim.status.no \subseteq StepConditions
    /\ mode = "pipeline" /\ fresh => mine.no \subseteq Pending(step, my.refs) \union Excused(my.refs, my.gen)

\* What a step may do to the conditions at False in the stored status.
NoMove ==
    \/ claim'.status = claim.status
    \/ claim.life # "live" /\ claim'.status.phase # "Ready"
    \/ claim'.status.phase # "Ready" /\ claim'.status.no \subseteq claim.status.no
    \/ /\ mode = "pipeline" /\ fresh
       /\ \/ step > LastStep /\ claim'.status.no = mine.no \ {"Ready"}
          \/ claim'.status.phase # "Ready" /\ claim'.status.no \subseteq mine.no \union {"Ready"}
          \/ /\ claim'.status.phase # "Ready" /\ step <= LastStep /\ Current.cond \in Conditions
             /\ claim'.status.no \subseteq mine.no \union {"Ready", Current.cond}

\* What the setters of status.go do to the conditions at False.
LEMMA Negated ==
    ASSUME NEW st \in Status, NEW c \in Conditions, NEW g \in Nat
    PROVE  /\ setTrue(st, c).no = st.no \ {c} /\ setFalse(st, c).no = st.no \union {c}
           /\ clearPausedCondition(st).no = st.no \ {"Paused"}
           /\ \A p : setPhase(st, p, g).no = st.no
           /\ \A refs, x : mirrorStatuses(st, refs, x).no = st.no
  BY ZenonT(60) DEF setTrue, setFalse, clearPausedCondition, setPhase, mirrorStatuses, Status

\* Mirroring changes no condition of its own.
LEMMA MirrorNegates ==
    ASSUME NEW st \in Status, NEW refs, NEW x
    PROVE  mirrorStatuses(st, refs, x).no = st.no
  BY ZenonT(60) DEF mirrorStatuses, Status

\* The phase is not a condition.
LEMMA PhaseNegates ==
    ASSUME NEW st \in Status, NEW p, NEW g \in Nat
    PROVE  setPhase(st, p, g).no = st.no
  BY ZenonT(60) DEF setPhase, Status

\* And the ones that also set the phase.
LEMMA NegatedPhase ==
    ASSUME NEW st \in Status, NEW g \in Nat
    PROVE  /\ setFailed(st, g).no = st.no \union {"Ready"} /\ setReady(st, g).no = st.no \ {"Ready"}
           /\ \A c \in Conditions : setWaiting(st, c, g).no = st.no \union {c}
  <1>1. "Ready" \in Conditions /\ \A p \in Phases : setPhase(st, p, g) \in Status /\ setPhase(st, p, g).no = st.no
    <2>1. "Ready" \in Conditions
      BY ZenonT(60) DEF Conditions
    <2> QED
      BY Zenon, <2>1, StatusTypes, Negated
  <1>2. ASSUME NEW p \in Phases, NEW c \in Conditions
        PROVE  /\ setTrue(setPhase(st, p, g), c).no = st.no \ {c}
               /\ setFalse(setPhase(st, p, g), c).no = st.no \union {c}
    <2> DEFINE s == setPhase(st, p, g)
    <2>1. s \in Status /\ s.no = st.no
      BY ZenonT(60), <1>1
    <2> HIDE DEF s
    <2>2. setTrue(s, c).no = s.no \ {c} /\ setFalse(s, c).no = s.no \union {c}
      BY <2>1, Negated
    <2> QED
      BY <2>1, <2>2 DEF s
  <1>3. "Failed" \in Phases /\ "Ready" \in Phases /\ "WaitingDependency" \in Phases
    BY DEF Phases
  <1> QED
    BY ZenonT(60), <1>1, <1>2, <1>3 DEF setFailed, setReady, setWaiting

\* A pass that waits is not Ready and reports the condition it waits for.
LEMMA Waiting ==
    ASSUME NEW st \in Status, NEW c \in Conditions, NEW g \in Nat
    PROVE  setWaiting(st, c, g).phase # "Ready" /\ setWaiting(st, c, g).no = st.no \union {c}
  <1>1. setWaiting(st, c, g).phase # "Ready"
    BY ZenonT(60), Stamped
  <1>2. setWaiting(st, c, g).no = st.no \union {c}
    BY ZenonT(60), NegatedPhase
  <1> QED
    BY Zenon, <1>1, <1>2

\* Leaving a step leaves its condition behind.
LEMMA PendingNext ==
    ASSUME NEW i \in 1..LastStep, NEW j \in 1..(LastStep + 1), NEW refs, NextStep(i, j, refs),
           NEW c \in Pending(i, refs), c # pipelineSteps[i].cond
    PROVE  c \in Pending(j, refs)
  <1>1. CASE c = "Ready"
    BY <1>1 DEF Pending
  <1>2. CASE c # "Ready"
    <2>1. c \in Conditions /\ \E k \in i..LastStep : ~Skipped(pipelineSteps[k], refs) /\ pipelineSteps[k].cond = c
      BY Zenon, <1>2 DEF Pending
    <2>2. PICK k \in i..LastStep : ~Skipped(pipelineSteps[k], refs) /\ pipelineSteps[k].cond = c
      BY <2>1
    <2>3. k # i /\ i \in Nat /\ k \in Nat /\ j \in Nat /\ LastStep \in Nat
      BY <2>2, StepIndex
    <2>4. k \notin (i + 1)..(j - 1)
      BY Zenon, <2>2 DEF NextStep
    <2>5. k \in j..LastStep
      BY <2>3, <2>4
    <2> QED
      BY Zenon, <2>1, <2>2, <2>5 DEF Pending
  <1> QED
    BY ZenonT(60), <1>1, <1>2

\* Behind the last step only Ready is pending.
LEMMA PendingLast == ASSUME NEW i \in Nat, i > LastStep, NEW refs PROVE Pending(i, refs) = {"Ready"}
  <1>1. i..LastStep = {}
    BY StepIndex
  <1> QED
    BY <1>1 DEF Pending

\* Every step treats the conditions at False as NoMove says.
LEMMA NoMoves == ASSUME TypeOK, StepOK, Safe, Dated, [Next]_vars PROVE NoMove
  <1>0. claim \in Claim /\ cclaim \in Claim /\ my \in Claim /\ mine \in Status
    BY Zenon DEF TypeOK
  <1>t. cclaim.status \in Status /\ cclaim.gen \in Nat /\ my.gen \in Nat
    BY <1>0 DEF Claim
  <1>c. "Deleting" \in Phases /\ "Paused" \in Phases /\ "Ready" \in Conditions /\ "Paused" \in Conditions
    BY DEF Phases, Conditions
  <1>1. CASE claim'.status = claim.status
    BY <1>1 DEF NoMove
  <1>2. ASSUME NEW was, NEW st, NEW current, NEW f, NEW ok, updateStatusIfChanged(was, st, current, f, ok)
        PROVE  claim'.status = claim.status \/ (current /\ claim'.status = st)
    <2>1. claim' = claim \/ (current /\ claim' = [claim EXCEPT !.status = st])
      BY Zenon, <1>2 DEF updateStatusIfChanged, StoreClaim, server
    <2>2. claim' = [claim EXCEPT !.status = st] => claim'.status = st
      BY <1>0 DEF Claim
    <2> QED
      BY Zenon, <2>1, <2>2
  <1>3. ASSUME NEW st, NEW f, NEW requeue, EndPass(st, f, requeue), mode = "pipeline", st.phase # "Ready",
               \/ st.no \subseteq mine.no \union {"Ready"}
               \/ /\ step <= LastStep /\ Current.cond \in Conditions
                  /\ st.no \subseteq mine.no \union {"Ready", Current.cond}
        PROVE  NoMove
    <2>1. claim'.status = claim.status \/ (fresh /\ claim'.status = st)
      BY ZenonT(60), <1>2, <1>3 DEF EndPass
    <2> QED
      BY ZenonT(60), <1>1, <1>3, <2>1 DEF NoMove
  <1>4. ASSUME mode = "pipeline" PROVE mine.phase # "Ready"
    BY <1>4 DEF Dated
  <1>5. ASSUME NEW f, TerminalError(mine, f) \/ TransientError(mine, f), mode = "pipeline"
        PROVE  NoMove
    <2>1. setFailed(mine, my.gen).phase # "Ready" /\ setFailed(mine, my.gen).no = mine.no \union {"Ready"}
      BY ZenonT(60), <1>0, <1>t, Stamped, NegatedPhase
    <2>2. setFalse(mine, "Ready").phase # "Ready" /\ setFalse(mine, "Ready").no = mine.no \union {"Ready"}
      BY ZenonT(60), <1>0, <1>t, <1>c, <1>4, <1>5, Marked, Negated
    <2> QED
      BY ZenonT(60), <1>3, <1>5, <2>1, <2>2 DEF TerminalError, TransientError
  <1>6. ASSUME NEW f, TerminalError(setFalse(mine, Current.cond), f) \/ TransientError(setFalse(mine, Current.cond), f),
               mode = "pipeline", step <= LastStep, Current.cond \in Conditions
        PROVE  NoMove
    <2> DEFINE s == setFalse(mine, Current.cond)
    <2>1. s \in Status /\ s.no = mine.no \union {Current.cond} /\ s.phase # "Ready"
      BY ZenonT(60), <1>0, <1>t, <1>4, <1>6, Marked, Negated, StatusTypes
    <2> HIDE DEF s
    <2>2. setFailed(s, my.gen).phase # "Ready" /\ setFailed(s, my.gen).no = s.no \union {"Ready"}
      BY Zenon, <2>1, <1>t, Stamped, NegatedPhase
    <2>3. setFalse(s, "Ready").phase # "Ready" /\ setFalse(s, "Ready").no = s.no \union {"Ready"}
      BY ZenonT(60), <2>1, <1>t, <1>c, Marked, Negated
    <2>4. s.no \union {"Ready"} \subseteq mine.no \union {"Ready", Current.cond}
      BY <2>1
    <2>5. TerminalError(s, f) \/ TransientError(s, f)
      BY Zenon, <1>6 DEF s
    <2> QED
      BY ZenonT(60), <1>3, <1>6, <2>2, <2>3, <2>4, <2>5 DEF TerminalError, TransientError
  <1>7. ASSUME Wait(Current.cond), mode = "pipeline", step <= LastStep, Current.cond \in Conditions
        PROVE  NoMove
    <2>0. PICK c \in Conditions : c = Current.cond
      BY ZenonT(60), <1>7
    <2> DEFINE s == setWaiting(mine, c, my.gen)
    <2>1. s.phase # "Ready" /\ s.no = mine.no \union {c}
      BY ZenonT(60), <1>0, <1>t, Waiting
    <2> HIDE DEF s
    <2>2. s.no \subseteq mine.no \union {"Ready", Current.cond}
      BY <2>0, <2>1
    <2>3. EndPass(s, faults, TRUE)
      BY Zenon, <1>7, <2>0 DEF Wait, s
    <2> QED
      BY ZenonT(60), <1>3, <1>7, <2>1, <2>2, <2>3
  <1>8. CASE reconcilePaused
    <2> DEFINE p == setPhase(cclaim.status, "Paused", cclaim.gen)
               st == setTrue(p, "Paused")
    <2>0. p \in Status /\ p.no = cclaim.status.no
      <3>1. p \in Status
        BY ZenonT(60), <1>t, <1>c, StatusTypes
      <3> QED
        BY ZenonT(60), <1>t, <1>c, <3>1, PhaseNegates
    <2>1. p.phase = "Paused"
      BY <1>t, <1>c, Stamped
    <2>2. \E ok : updateStatusIfChanged(cclaim.status, st, ~claimDirty, faults, ok)
      BY Zenon, <1>8 DEF reconcilePaused
    <2> HIDE DEF p
    <2>3. st.phase = "Paused" /\ st.no = p.no \ {"Paused"}
      BY ZenonT(60), <1>c, <1>t, <2>0, <2>1, Marked, Negated
    <2> HIDE DEF st
    <2>4. st.phase # "Ready" /\ st.no \subseteq cclaim.status.no
      BY <2>0, <2>3
    <2>5. claim'.status = claim.status \/ (~claimDirty /\ claim'.status = st)
      BY ZenonT(60), <1>2, <2>2
    <2>6. ~claimDirty => cclaim = claim
      BY Zenon DEF Safe, Coherent
    <2> QED
      BY ZenonT(60), <1>1, <2>4, <2>5, <2>6 DEF NoMove
  <1>9. CASE reconcileDelete
    <2> DEFINE p == setPhase(cclaim.status, "Deleting", cclaim.gen)
    <2>1. p.phase # "Ready"
      <3>1. p.phase = "Deleting"
        BY <1>t, <1>c, Stamped
      <3> HIDE DEF p
      <3> QED
        BY ZenonT(60), <3>1
    <2>2. \E ok : updateStatusIfChanged(cclaim.status, p, ~claimDirty, faults, ok)
      BY Zenon, <1>9 DEF reconcileDelete
    <2> HIDE DEF p
    <2>3. claim'.status = claim.status \/ claim'.status = p
      BY Zenon, <1>2, <2>2
    <2>4. claim.life # "live"
      BY Zenon, <1>9 DEF reconcileDelete, Safe, LifeKnown
    <2> QED
      BY ZenonT(60), <1>1, <2>1, <2>3, <2>4 DEF NoMove
  <1>10. CASE ensureResourceFails \/ ensureResourceFinalizerFails
    <2>1. mode = "pipeline"
      BY Zenon, <1>10 DEF ensureResourceFails, ensureResourceFinalizerFails, InStep
    <2> QED
      BY ZenonT(60), <1>5, <1>10, <2>1 DEF ensureResourceFails, ensureResourceFinalizerFails
  <1>11. CASE AwaitStep \/ KmsStep \/ RemoteConnect \/ applyRemoteConfigMapFails
    <2>1. mode = "pipeline" /\ step <= LastStep /\ Current.cond \in Conditions
      BY ZenonT(60), <1>11, CurrentTypes DEF AwaitStep, KmsStep, RemoteConnect, applyRemoteConfigMapFails, InStep
    <2>3. CASE AwaitStep
      BY ZenonT(60), <1>1, <1>5, <1>7, <2>1, <2>3 DEF AwaitStep, server
    <2>4. CASE KmsStep
      BY ZenonT(60), <1>1, <1>7, <2>1, <2>4 DEF KmsStep, server
    <2>5. CASE RemoteConnect \/ applyRemoteConfigMapFails
      BY ZenonT(60), <1>1, <1>6, <1>7, <2>1, <2>5 DEF RemoteConnect, applyRemoteConfigMapFails, server
    <2> QED
      BY ZenonT(60), <1>11, <2>3, <2>4, <2>5
  <1>12. CASE Ready
    <2> DEFINE st == setReady(mine, my.gen)
    <2>1. st.no = mine.no \ {"Ready"}
      BY ZenonT(60), <1>0, <1>t, NegatedPhase
    <2>2. \E ok : updateStatusIfChanged(my.status, st, fresh, faults, ok)
      BY Zenon, <1>12 DEF Ready, EndPass
    <2> HIDE DEF st
    <2>3. claim'.status = claim.status \/ (fresh /\ claim'.status = st)
      BY Zenon, <1>2, <2>2
    <2>4. mode = "pipeline" /\ step > LastStep
      BY Zenon, <1>12 DEF Ready
    <2> QED
      BY ZenonT(60), <1>1, <2>1, <2>3, <2>4 DEF NoMove
  <1>13. CASE ReconcileStart
    <2>1. claim' = claim \/ claim' = [claim EXCEPT !.fin = TRUE]
      BY <1>13 DEF ReconcileStart, ensureFinalizer, StoreClaim, server
    <2>2. claim'.status = claim.status
      BY ZenonT(60), <1>0, <2>1 DEF Claim
    <2> QED
      BY ZenonT(60), <1>1, <2>2
  <1>14. CASE removeFinalizer
    <2>1. claim' = claim \/ claim' = [claim EXCEPT !.fin = FALSE, !.life = IF claim.fg THEN @ ELSE "gone"]
      BY <1>14 DEF removeFinalizer, StoreClaim, server
    <2>2. claim'.status = claim.status
      BY Zenon, <1>0, <2>1 DEF Claim
    <2> QED
      BY Zenon, <1>1, <2>2
  <1>15. CASE Pass
    <2>1. CASE ReconcileNotFound \/ ensureFinalizerFails \/ ensureResource \/ ensureResourceFinalizer
               \/ applyRemoteConfigMap \/ deleteRemoteConfigMaps
      BY ZenonT(60), <1>1, <2>1 DEF ReconcileNotFound, ensureFinalizerFails, ensureResource, ensureResourceFinalizer,
                               applyRemoteConfigMap, deleteRemoteConfigMaps, server
    <2>2. ASSUME NEW r \in Managed,
                  \/ removeResourceFinalizer(r) \/ removeResourceFinalizerFails(r)
                  \/ deleteAndWait(r) \/ deleteResource(r)
          PROVE  NoMove
      BY Zenon, <1>1, <2>2 DEF removeResourceFinalizer, removeResourceFinalizerFails, deleteAndWait, deleteResource, server
    <2> QED
      BY ZenonT(60), <1>8, <1>9, <1>10, <1>11, <1>12, <1>13, <1>14, <1>15, <2>1, <2>2 DEF Pass
  <1>16. CASE User \/ EndForeground
    <2>1. ASSUME NEW c, NEW event, Change(c, event), c.status = claim.status PROVE NoMove
      BY Zenon, <1>1, <2>1 DEF Change, StoreClaim
    <2>2. CASE EditSpec
      <3>1. PICK refs : Change([claim EXCEPT !.gen = @ + 1, !.refs = refs], TRUE)
        BY Zenon, <2>2 DEF EditSpec
      <3>2. [claim EXCEPT !.gen = @ + 1, !.refs = refs].status = claim.status
        BY <1>0 DEF Claim
      <3> QED
        BY ZenonT(60), <2>1, <3>1, <3>2
    <2>3. CASE Pause \/ Unpause \/ TouchLabels
      <3>1. PICK c, event : Change(c, event) /\ c \in {claim, [claim EXCEPT !.paused = TRUE], [claim EXCEPT !.paused = FALSE]}
        BY Zenon, <2>3 DEF Pause, Unpause, TouchLabels
      <3>2. c.status = claim.status
        BY <1>0, <3>1 DEF Claim
      <3> QED
        BY ZenonT(60), <2>1, <3>1, <3>2
    <2>4. CASE DeleteClaim
      <3>1. PICK fg : Change([claim EXCEPT !.life = IF claim.fin \/ fg THEN "deleting" ELSE "gone",
                                           !.gen = @ + 1, !.fg = fg], TRUE)
        BY Zenon, <2>4 DEF DeleteClaim
      <3>2. [claim EXCEPT !.life = IF claim.fin \/ fg THEN "deleting" ELSE "gone", !.gen = @ + 1, !.fg = fg].status
              = claim.status
        BY <1>0 DEF Claim
      <3> QED
        BY ZenonT(60), <2>1, <3>1, <3>2
    <2>5. CASE EndForeground
      <3>1. Change([claim EXCEPT !.fg = FALSE, !.life = IF claim.fin THEN @ ELSE "gone"], ~claim.fin)
        BY <2>5 DEF EndForeground
      <3>2. [claim EXCEPT !.fg = FALSE, !.life = IF claim.fin THEN @ ELSE "gone"].status = claim.status
        BY <1>0 DEF Claim
      <3> QED
        BY ZenonT(60), <2>1, <3>1, <3>2
    <2> QED
      BY ZenonT(60), <1>16, <2>2, <2>3, <2>4, <2>5 DEF User
  <1>17. CASE World
    BY ZenonT(60), <1>1, <1>16, <1>17 DEF World, KubeconfigSecret, CollectDependent, Advance, Regress, ForeignCleanup,
                            OnObject, Block, Unblock, SetObstacle, server
  <1>18. CASE Deliver \/ Crash
    BY ZenonT(60), <1>1, <1>18 DEF Deliver, SyncClaim, SyncKind, TimerFires, Crash, server
  <1>19. CASE UNCHANGED vars
    BY ZenonT(60), <1>1, <1>19 DEF vars
  <1> QED
    BY ZenonT(60), <1>15, <1>16, <1>17, <1>18, <1>19 DEF Next

\* A pass that goes on stays at its step with what it has, or leaves it having reset its condition, except
\* for a KMS barrier that a VaultClaim without keys opens.
LEMMA Leaving ==
    ASSUME TypeOK, StepOK, Continues, mode' = "pipeline"
    PROVE  \/ step' = step /\ mine' = mine
           \/ /\ step' \in 1..(LastStep + 1) /\ NextStep(step, step', my.refs)
              /\ \/ Current.cond \in Conditions /\ mine' = setTrue(mine, Current.cond)
                 \/ mine' = mine /\ Current.cond \notin Conditions
                 \/ mine' = mine /\ Current.op = "kms" /\ KeylessView
  <1> DEFINE Goal ==
         \/ step' = step /\ mine' = mine
         \/ /\ step' \in 1..(LastStep + 1) /\ NextStep(step, step', my.refs)
            /\ \/ Current.cond \in Conditions /\ mine' = setTrue(mine, Current.cond)
               \/ mine' = mine /\ Current.cond \notin Conditions
               \/ mine' = mine /\ Current.op = "kms" /\ KeylessView
  <1> SUFFICES Goal
    OBVIOUS
  <1>1. mode = "pipeline" /\ step <= LastStep
    BY Zenon DEF Continues, ensureResource, ensureResourceFinalizer, AwaitStep, KmsStep, RemoteConnect,
                 applyRemoteConfigMap, InStep
  <1>2. Current.cond \in Conditions \union {""} /\ (Current.op = "kms" => Current.cond \in Conditions)
    BY Zenon, <1>1, CurrentTypes
  <1>3. "" \notin Conditions
    BY DEF Conditions
  <1>4. ~GoIdle
    BY DEF GoIdle
  <1>5. ASSUME NEW st, NEW f, TerminalError(st, f) \/ TransientError(st, f) PROVE FALSE
    BY Zenon, <1>4, <1>5 DEF TerminalError, TransientError, EndPass
  <1>6. ASSUME NEW c, Wait(c) PROVE FALSE
    BY ZenonT(60), <1>4, <1>6 DEF Wait, EndPass
  <1>7. ASSUME NEW c, Proceed(c)
        PROVE  /\ step' \in 1..(LastStep + 1) /\ NextStep(step, step', my.refs)
               /\ mine' = IF c = "" THEN mine ELSE setTrue(mine, c)
    BY Zenon, <1>7 DEF Proceed
  <1>8. ASSUME Proceed(Current.cond) PROVE Goal
    <2>1. CASE Current.cond = ""
      BY ZenonT(60), <1>3, <1>7, <1>8, <2>1
    <2>2. CASE Current.cond # ""
      BY ZenonT(60), <1>2, <1>7, <1>8, <2>2
    <2> QED
      BY Zenon, <2>1, <2>2
  <1>9. ASSUME Proceed(""), Current.op = "kms", KeylessView PROVE Goal
    BY ZenonT(60), <1>7, <1>9
  <1>10. ASSUME step' = step, mine' = mine PROVE Goal
    BY <1>10
  <1> HIDE DEF Goal
  <1>11. CASE ensureResource \/ ensureResourceFinalizer \/ applyRemoteConfigMap
    BY ZenonT(60), <1>8, <1>10, <1>11 DEF ensureResource, ensureResourceFinalizer, applyRemoteConfigMap
  <1>12. CASE AwaitStep \/ RemoteConnect
    BY ZenonT(60), <1>5, <1>6, <1>8, <1>10, <1>12 DEF AwaitStep, RemoteConnect
  <1>13. CASE KmsStep
    <2>1. /\ Current.op = "kms" /\ cobj["VaultClaim"].there
          /\ Proceed(IF cobj["VaultClaim"].keys THEN Current.cond ELSE "")
      BY Zenon, <1>6, <1>13 DEF KmsStep, InStep
    <2>2. CASE cobj["VaultClaim"].keys
      BY Zenon, <1>8, <2>1, <2>2
    <2>3. CASE ~cobj["VaultClaim"].keys
      BY ZenonT(60), <1>9, <2>1, <2>3 DEF KeylessView
    <2> QED
      BY Zenon, <2>2, <2>3
  <1> QED
    BY ZenonT(60), <1>11, <1>12, <1>13 DEF Continues

\* At its first step a pass will come to every step that it does not skip.
LEMMA PendingStart ==
    ASSUME NEW j \in 1..(LastStep + 1), NEW refs, NEW n, NextStep(0, j, refs)
    PROVE  StepConditions \subseteq Pending(j, refs) \union Excused(refs, n)
  <1>1. ASSUME NEW k \in 1..LastStep, ~Skipped(pipelineSteps[k], refs) PROVE k \in j..LastStep
    <2>1. k \notin (0 + 1)..(j - 1)
      BY Zenon, <1>1 DEF NextStep
    <2> QED
      BY <2>1, StepIndex
  <1> QED
    BY Zenon, <1>1 DEF Pending, Excused, StepConditions

\* Whatever a pass may still set, or is excused from, is the condition of a step.
LEMMA OfSteps ==
    ASSUME NEW i \in 1..(LastStep + 1), NEW refs, NEW n
    PROVE  Pending(i, refs) \union Excused(refs, n) \subseteq StepConditions
  <1>1. i..LastStep \subseteq 1..LastStep
    BY StepIndex
  <1> QED
    BY Zenon, <1>1 DEF Pending, Excused, StepConditions

\* The stored conditions at False stay those of steps.
LEMMA StoredWaits ==
    ASSUME TypeOK, StepOK, Waits, ClaimMove, NoMove, claim'.life = "live"
    PROVE  claim'.status.no \subseteq StepConditions
  <1>1. claim.life = "live" /\ claim.status.no \subseteq StepConditions
    BY Zenon DEF ClaimMove, Waits
  <1>2. CASE claim'.status.no \subseteq claim.status.no
    BY Zenon, <1>1, <1>2
  <1>3. CASE mode = "pipeline" /\ fresh
    <2>1. step \in 1..(LastStep + 1) /\ (step <= LastStep => step \in 1..LastStep)
      <3>1. step \in 0..(LastStep + 1) /\ step >= 1
        BY ZenonT(60), <1>3 DEF StepOK, TypeOK
      <3> QED
        BY <3>1, StepIndex
    <2>2. mine.no \subseteq StepConditions
      BY ZenonT(60), <1>3, <2>1, OfSteps DEF Waits
    <2>3. "Ready" \in StepConditions
      BY Zenon DEF StepConditions
    <2>4. step <= LastStep /\ Current.cond \in Conditions => Current.cond \in StepConditions
      BY Zenon, <2>1 DEF StepConditions, Current
    <2> QED
      BY ZenonT(60), <1>1, <1>2, <2>2, <2>3, <2>4 DEF NoMove
  <1> QED
    BY ZenonT(60), <1>1, <1>2, <1>3 DEF NoMove

\* The conditions at False that a pass has in its hands stay those of steps it has not left.
LEMMA HandWaits ==
    ASSUME TypeOK, StepOK, Safe, Dated, Numbered, Waits, PassMove, mode' = "pipeline", fresh'
    PROVE  mine'.no \subseteq Pending(step', my'.refs) \union Excused(my'.refs, my'.gen)
  <1>2. mode = "pipeline" /\ fresh => mine.no \subseteq Pending(step, my.refs) \union Excused(my.refs, my.gen)
    BY Zenon DEF Waits
  <1>3. CASE UNCHANGED <<mode, my, mine, step, sub, cli, remote>> /\ fresh
    BY ZenonT(60), <1>2, <1>3
  <1>4. CASE ReconcileStart
    <2> DEFINE c == [cclaim EXCEPT !.fin = TRUE]
               s == setPhase(c.status, "Provisioning", c.gen)
               t == clearPausedCondition(s)
    <2>0. cclaim \in Claim
      BY ZenonT(60) DEF TypeOK
    <2>1. /\ c.status = cclaim.status /\ c.gen = cclaim.gen /\ c.refs = cclaim.refs
          /\ cclaim.status \in Status /\ cclaim.gen \in Nat
      BY <2>0 DEF Claim
    <2>2. /\ ~claimDirty /\ my' = c /\ mine' = mirrorStatuses(t, c.refs, cobj)
          /\ \E j \in 1..(LastStep + 1) : NextStep(0, j, c.refs) /\ step' = j
      BY Zenon, <1>4 DEF ReconcileStart, ensureFinalizer, BeginPipeline
    <2>3. cclaim = claim /\ claim.life = "live"
      BY ZenonT(60), <1>4, <2>2 DEF ReconcileStart, Safe, Coherent
    <2> HIDE DEF c
    <2>4. s \in Status /\ s.no = cclaim.status.no
      <3>1. "Provisioning" \in Phases /\ "Ready" \in Conditions
        BY ZenonT(60) DEF Phases, Conditions
      <3>2. s \in Status
        BY ZenonT(60), <2>1, <3>1, StatusTypes
      <3>3. c.status \in Status /\ c.gen \in Nat
        BY ZenonT(60), <2>1
      <3>4. s.no = c.status.no
        BY ZenonT(60), <3>3, PhaseNegates
      <3> QED
        BY ZenonT(60), <2>1, <3>2, <3>4
    <2> HIDE DEF s
    <2>5. t \in Status /\ t.no = s.no \ {"Paused"}
      <3>1. "Ready" \in Conditions /\ 0 \in Nat
        BY ZenonT(60) DEF Conditions
      <3>2. t \in Status
        BY ZenonT(60), <2>4, <3>1, StatusTypes
      <3> QED
        BY ZenonT(60), <2>4, <3>1, <3>2, Negated
    <2> HIDE DEF t
    <2>6. mine'.no = t.no
      <3>2. mirrorStatuses(t, c.refs, cobj).no = t.no
        BY ZenonT(60), <2>5, MirrorNegates
      <3> QED
        BY ZenonT(60), <2>2, <3>2
    <2>7. mine'.no \subseteq cclaim.status.no
      BY ZenonT(60), <2>4, <2>5, <2>6
    <2>8. StepConditions \subseteq Pending(step', c.refs) \union Excused(c.refs, c.gen)
      BY Zenon, <2>2, PendingStart
    <2>9. cclaim.status.no \subseteq StepConditions
      BY ZenonT(60), <2>3 DEF Waits
    <2> QED
      BY ZenonT(60), <2>2, <2>7, <2>8, <2>9
  <1>5. CASE Continues
    <2>1. mode = "pipeline" /\ step \in 1..LastStep /\ my' = my /\ fresh
      BY ZenonT(60), <1>5, Continuing
    <2> DEFINE E == Excused(my.refs, my.gen)
    <2>2. mine.no \subseteq Pending(step, my.refs) \union E /\ mine \in Status
      BY ZenonT(60), <1>2, <2>1 DEF TypeOK
    <2>3. CASE step' = step /\ mine' = mine
      BY ZenonT(60), <2>1, <2>2, <2>3
    <2>4. ASSUME step' \in 1..(LastStep + 1), NextStep(step, step', my.refs), mine'.no \subseteq mine.no,
                 Current.cond \in mine'.no => Current.cond \in E
          PROVE  mine'.no \subseteq Pending(step', my'.refs) \union Excused(my'.refs, my'.gen)
      <3>1. ASSUME NEW x \in mine'.no, x \notin E PROVE x \in Pending(step', my.refs)
        <4>1. x \in Pending(step, my.refs) /\ x # pipelineSteps[step].cond
          BY ZenonT(60), <2>2, <2>4, <3>1 DEF Current
        <4>2. PICK j \in 1..(LastStep + 1) : j = step' /\ NextStep(step, j, my.refs)
          BY Zenon, <2>4
        <4>3. x \in Pending(j, my.refs)
          BY ZenonT(60), <2>1, <4>1, <4>2, PendingNext
        <4> QED
          BY ZenonT(60), <4>2, <4>3
      <3> QED
        BY ZenonT(60), <2>1, <3>1
    <2>5. ASSUME Current.cond \in Conditions, mine' = setTrue(mine, Current.cond)
          PROVE  mine'.no \subseteq mine.no /\ Current.cond \notin mine'.no
      <3>1. PICK c \in Conditions : c = Current.cond
        BY ZenonT(60), <2>5
      <3>2. setTrue(mine, c).no = mine.no \ {c}
        BY ZenonT(60), <2>2, Negated
      <3> QED
        BY ZenonT(60), <2>5, <3>1, <3>2
    <2>6. ASSUME Current.cond \notin Conditions PROVE Current.cond \notin mine.no
      BY ZenonT(60), <2>2, <2>6 DEF Status
    <2>7. ASSUME Current.op = "kms", KeylessView PROVE Current.cond \in E
      <3>0. step <= LastStep /\ Current = pipelineSteps[step]
        BY <2>1, StepIndex DEF Current
      <3>1. Current.cond \in Conditions
        BY ZenonT(60), <2>1, <2>7, <3>0, CurrentTypes
      <3>2. Keyless(my.gen)
        BY Zenon, <2>1, <2>7 DEF Numbered
      <3> QED
        BY ZenonT(60), <2>1, <2>7, <3>0, <3>1, <3>2 DEF Excused
    <2> HIDE DEF E
    <2> QED
      BY ZenonT(60), <1>5, <2>3, <2>4, <2>5, <2>6, <2>7, Leaving
  <1> QED
    BY ZenonT(60), <1>3, <1>4, <1>5 DEF PassMove

\* Ready is stored only with the conditions at False that the spec excuses, and edits outdate it.
LEMMA NoFalseKept ==
    ASSUME TypeOK, Dated, Waits, ReadyHasNoFalseCondition, StatusMove, NoMove
    PROVE  ReadyHasNoFalseCondition'
  <1> DEFINE Open(no, refs, n) ==
        \A c \in no : \E i \in 1..LastStep :
          /\ pipelineSteps[i].cond = c
          /\ Skipped(pipelineSteps[i], refs) \/ (pipelineSteps[i].op = "kms" /\ \E g \in 1..n : g \notin KeyedGens)
  <1> SUFFICES ASSUME claim'.status.phase = "Ready", claim'.status.gen = claim'.gen
               PROVE  Open(claim'.status.no, claim'.refs, claim'.gen)
    BY Zenon DEF ReadyHasNoFalseCondition
  <1>0. claim.gen \in Nat /\ claim.status.gen \in Nat
    BY ZenonT(60) DEF TypeOK, Claim, Status
  <1>1. claim.status.gen # claim.gen + 1
    BY <1>0 DEF Dated
  <1>2. CASE claim'.status = claim.status
    <2>1. claim'.gen = claim.gen /\ claim'.refs = claim.refs
      BY ZenonT(60), <1>1, <1>2 DEF StatusMove
    <2>2. Open(claim.status.no, claim.refs, claim.gen)
      BY Zenon, <1>2, <2>1 DEF ReadyHasNoFalseCondition
    <2> QED
      BY Zenon, <1>2, <2>1, <2>2
  <1>3. CASE claim'.status # claim.status /\ mode = "pipeline" /\ fresh /\ step > LastStep /\ claim'.status.no = mine.no \ {"Ready"}
    <2>0. step \in Nat
      <3>1. step \in 0..(LastStep + 1)
        BY Zenon DEF TypeOK
      <3> QED
        BY <3>1, StepIndex
    <2>1. mine.no \subseteq Pending(step, my.refs) \union Excused(my.refs, my.gen)
      BY ZenonT(60), <1>3 DEF Waits
    <2>2. Pending(step, my.refs) = {"Ready"}
      BY ZenonT(60), <1>3, <2>0, PendingLast
    <2>3. claim'.gen = my.gen /\ claim'.refs = my.refs
      BY ZenonT(60), <1>3 DEF StatusMove, Dated
    <2>4. claim'.status.no \subseteq Excused(my.refs, my.gen)
      BY ZenonT(60), <1>3, <2>1, <2>2
    <2> QED
      BY Zenon, <2>3, <2>4 DEF Excused, Keyless
  <1> QED
    BY Zenon, <1>2, <1>3 DEF NoMove

(***************************************************************************)
(* Ready is stored only with conditions at False that the spec excuses     *)
(* (ReadyHasNoFalseCondition), whatever edits drop references or transit   *)
(* keys: a pass sets a condition to False only at a step, and leaves that  *)
(* step by setting it to True unless the KMS barrier looks at a VaultClaim *)
(* without keys; the passes after it come to the step again unless its     *)
(* reference is gone.                                                      *)
(***************************************************************************)
THEOREM ReadyIsUnqualified == Spec => []ReadyHasNoFalseCondition
  <1> DEFINE Inv == Waits /\ ReadyHasNoFalseCondition
  <1>1. Init => Inv
    <2> SUFFICES ASSUME Init PROVE Inv
      OBVIOUS
    <2>1. claim = [NoClaim EXCEPT !.life = "live", !.gen = 1, !.refs = InitialRefs] /\ mode = "idle"
      BY Zenon DEF Init
    <2>2. claim.status.no = {} /\ mode # "pipeline"
      BY Zenon, <2>1 DEF NoClaim, NoStatus
    <2> QED
      BY Zenon, <2>2 DEF Waits, ReadyHasNoFalseCondition
  <1>2. TypeOK /\ StepOK /\ Safe /\ TypeOK' /\ Knowledge /\ Numbered /\ Inv /\ [Next]_vars => Inv'
    <2> SUFFICES ASSUME TypeOK, StepOK, Safe, TypeOK', Knowledge, Numbered, Inv, [Next]_vars PROVE Inv'
      OBVIOUS
    <2>0. Held /\ Dated /\ Waits /\ ReadyHasNoFalseCondition
      BY Zenon DEF Knowledge
    <2>1. ClaimMove /\ PassMove /\ StatusMove /\ NoMove
      BY ZenonT(60), <2>0, ClaimMoves, PassMoves, StatusMoves, NoMoves
    <2>3. Waits'
      BY ZenonT(60), <2>0, <2>1, StoredWaits, HandWaits DEF Waits
    <2> QED
      BY ZenonT(60), <2>0, <2>1, <2>3, NoFalseKept
  <1> QED
    BY <1>1, <1>2, TypeCorrect, Safety, Known, NumberedAlways, PTL DEF Spec

-------------------------------------------------------------------------------
(***************************************************************************)
(* What the client cluster waits for (ClientClusterStartsLast).            *)
(***************************************************************************)
\* Before the first delete pass what the informer has shown of a resource under the finalizer is lost
\* no further than its kind falls back, so that a barrier a pass has gone through stays behind it.
Barred ==
    /\ Working => \A r \in Managed : obj[r].guard = "held" => obj[r].level >= Floor(r, cobj[r].level)
    /\ mode = "pipeline" /\ step > 8 => obj["ClusterInfra"].level = 2
    /\ mode = "pipeline" /\ "VaultClaim" \in my.refs =>
         /\ step > 9 => obj["VaultClaim"].guard = "held"
         /\ step > 13 /\ ~Keyless(my.gen) => obj["VaultClaim"].level >= 1

\* The steps in question.
LEMMA BarrierData ==
    /\ 8 \in 1..LastStep /\ 9 \in 1..LastStep /\ 13 \in 1..LastStep
    /\ pipelineSteps[8].op = "await" /\ pipelineSteps[8].res = "ClusterInfra" /\ pipelineSteps[8].level = 2
    /\ pipelineSteps[9].op = "ensure" /\ pipelineSteps[9].res = "VaultClaim"
    /\ pipelineSteps[13].op = "kms"
    /\ \A refs : ~Skipped(pipelineSteps[8], refs)
    /\ \A refs : "VaultClaim" \in refs => ~Skipped(pipelineSteps[9], refs) /\ ~Skipped(pipelineSteps[13], refs)
  <1>1. 8 \in 1..LastStep /\ 9 \in 1..LastStep /\ 13 \in 1..LastStep
    BY DEF LastStep
  <1>2. /\ pipelineSteps[8] = stepWaitInfraCPReady /\ pipelineSteps[9] = stepEnsureVaultClaim
        /\ pipelineSteps[13] = stepWaitVaultKmsReady
    BY DEF pipelineSteps
  <1>3. /\ stepWaitInfraCPReady.op = "await" /\ stepWaitInfraCPReady.res = "ClusterInfra"
        /\ stepWaitInfraCPReady.level = 2 /\ stepWaitInfraCPReady.when = "always"
    BY ZenonT(60) DEF stepWaitInfraCPReady, Await
  <1>4. stepEnsureVaultClaim.op = "ensure" /\ stepEnsureVaultClaim.res = "VaultClaim" /\ stepEnsureVaultClaim.when = "ref"
    BY ZenonT(60) DEF stepEnsureVaultClaim, Ensure
  <1>5. stepWaitVaultKmsReady.op = "kms" /\ stepWaitVaultKmsReady.res = "VaultClaim" /\ stepWaitVaultKmsReady.when = "ref"
    BY ZenonT(60) DEF stepWaitVaultKmsReady
  <1>6. \A refs : ~Skipped(stepWaitInfraCPReady, refs)
    BY ZenonT(60), <1>3 DEF Skipped
  <1>7. \A refs : "VaultClaim" \in refs => ~Skipped(stepEnsureVaultClaim, refs) /\ ~Skipped(stepWaitVaultKmsReady, refs)
    BY ZenonT(60), <1>4, <1>5 DEF Skipped
  <1> QED
    BY ZenonT(60), <1>1, <1>2, <1>3, <1>4, <1>5, <1>6, <1>7

\* One step renders the client cluster.
LEMMA ClientStep ==
    ASSUME NEW i \in 1..LastStep, pipelineSteps[i].op \in {"ensure", "reapply"}, pipelineSteps[i].res = "ClusterClient"
    PROVE  i = 14
  <1> DEFINE Other(j) == pipelineSteps[j].op \notin {"ensure", "reapply"} \/ pipelineSteps[j].res # "ClusterClient"
  <1>1. Other(1) /\ Other(2) /\ Other(3) /\ Other(4) /\ Other(5)
    BY ZenonT(60) DEF pipelineSteps, Ensure, Await, stepApplication, stepEnsureS3BucketClaim, stepCertificateSetInfra,
           stepWaitCertSetReady, stepClusterInfra
  <1>2. Other(6) /\ Other(7) /\ Other(8) /\ Other(9) /\ Other(10)
    BY ZenonT(60) DEF pipelineSteps, Ensure, Await, stepWaitInfraProvisioned, stepCertificateSetClient, stepWaitInfraCPReady,
           stepEnsureVaultClaim, stepEnsureVaultSecretClaim
  <1>3. Other(11) /\ Other(12) /\ Other(13)
    BY DEF pipelineSteps, Ensure, Await, stepCcmCsrc, stepRemoteConfigMaps, stepWaitVaultKmsReady, RemoteConfig
  <1>4. Other(15) /\ Other(16) /\ Other(17) /\ Other(18) /\ Other(19)
    BY ZenonT(60) DEF pipelineSteps, Ensure, Await, stepWaitClientCPReady, stepCcmCsrcUpdate, stepWaitVaultClaim,
           stepWaitVaultSecretClaim, stepWaitS3BucketClaim
  <1>5. i \in 1..19 /\ ~Other(i)
    BY DEF LastStep
  <1> HIDE DEF Other
  <1> QED
    BY ZenonT(60), <1>1, <1>2, <1>3, <1>4, <1>5, NineteenSteps

\* A pass is beyond a step that it does not skip only when it has just left it or was beyond it before.
LEMMA Passing ==
    ASSUME TypeOK, StepOK, PassMove, mode' = "pipeline",
           NEW n \in 1..LastStep, ~Skipped(pipelineSteps[n], my'.refs), step' > n
    PROVE  /\ mode = "pipeline" /\ my' = my
           /\ step > n \/ (Continues /\ step = n /\ Current = pipelineSteps[n] /\ \E c : Proceed(c))
  <1>0. step \in 0..(LastStep + 1) /\ LastStep \in Nat
    BY ZenonT(60), StepIndex DEF TypeOK
  <1>1. CASE UNCHANGED <<mode, my, mine, step, sub, cli, remote>>
    BY ZenonT(60), <1>1
  <1>2. CASE ReconcileStart
    <2>1. PICK j \in 1..(LastStep + 1) : NextStep(0, j, my'.refs) /\ step' = j
      BY ZenonT(60), <1>2 DEF ReconcileStart, BeginPipeline
    <2>2. n \in (0 + 1)..(j - 1)
      BY <1>0, <2>1
    <2> QED
      BY ZenonT(60), <2>1, <2>2 DEF NextStep
  <1>3. CASE Continues
    <2>0. mode = "pipeline" /\ my' = my /\ step \in 1..LastStep
      BY ZenonT(60), <1>3, Continuing
    <2>g. ~GoIdle
      BY DEF GoIdle
    <2>1. step' = step \/ \E c : Proceed(c)
      BY ZenonT(60), <1>3, <2>g DEF Continues, ensureResource, ensureResourceFinalizer, AwaitStep, KmsStep, RemoteConnect,
                     applyRemoteConfigMap, Wait, TransientError, EndPass
    <2>2. ASSUME NEW c, Proceed(c) PROVE step > n \/ step = n
      <3>1. PICK j \in 1..(LastStep + 1) : NextStep(step, j, my.refs) /\ step' = j
        BY ZenonT(60), <2>2 DEF Proceed
      <3>2. ~(n \in (step + 1)..(j - 1))
        BY ZenonT(60), <2>0, <3>1 DEF NextStep
      <3> QED
        BY ZenonT(60), <1>0, <3>1, <3>2, NotBetween
    <2>3. step = n => Current = pipelineSteps[n]
      BY DEF Current
    <2>4. CASE step' = step
      BY ZenonT(60), <2>0, <2>4
    <2> QED
      BY ZenonT(60), <1>3, <2>0, <2>1, <2>2, <2>3, <2>4
  <1> QED
    BY ZenonT(60), <1>1, <1>2, <1>3 DEF PassMove

\* How far a resource can fall back: no further than to what it cannot fall back from.
LEMMA FloorFacts ==
    ASSUME NEW r, NEW l \in 0..2, NEW m \in 0..2
    PROVE  /\ Floor(r, l) <= l /\ Floor(r, l) \in 0..2
           /\ m >= Floor(r, l) => Floor(r, m) >= Floor(r, l)
           /\ r = "ClusterInfra" => Floor(r, l) = l
           /\ r = "VaultClaim" /\ l >= 1 => Floor(r, l) = 1
  <1>1. CASE r \in {"ClusterInfra", "ClusterClient"}
    <2>1. Floor(r, l) = l /\ Floor(r, m) = m /\ r # "VaultClaim"
      BY ZenonT(60), <1>1 DEF Floor
    <2> QED
      BY <2>1
  <1>2. CASE r = "VaultClaim"
    <2>1. Floor(r, l) = (IF l > 0 THEN 1 ELSE 0) /\ Floor(r, m) = (IF m > 0 THEN 1 ELSE 0)
      BY ZenonT(60), <1>2 DEF Floor
    <2> QED
      BY <1>2, <2>1
  <1>3. CASE r \notin {"ClusterInfra", "ClusterClient"} /\ r # "VaultClaim"
    <2>1. Floor(r, l) = 0 /\ Floor(r, m) = 0
      BY <1>3 DEF Floor
    <2> QED
      BY <1>3, <2>1
  <1> QED
    BY ZenonT(60), <1>1, <1>2, <1>3

\* Outside the delete passes a resource under the finalizer keeps it and loses no more than its kind falls back.
LEMMA LevelKept ==
    ASSUME TypeOK, TypeOK', StepOK, Observed, [Next]_vars, mode # "delete", NEW r \in Managed, obj[r].guard = "held"
    PROVE  /\ obj'[r].guard = "held" /\ obj[r].level \in 0..2 /\ obj'[r].level \in 0..2
           /\ obj'[r].level >= Floor(r, obj[r].level)
  <1>0. obj \in [Managed -> Object] /\ obj' \in [Managed -> Object]
    BY ZenonT(60) DEF TypeOK
  <1>t. obj[r] \in Object /\ obj'[r] \in Object /\ obj[r].level \in 0..2 /\ obj'[r].level \in 0..2
    BY <1>0 DEF Object
  <1>h. obj[r].there
    <2>1. "held" # "never"
      OBVIOUS
    <2> QED
      BY ZenonT(60), <2>1 DEF Observed
  <1>g. obj'[r].guard = "held"
    BY ZenonT(60), ObjectMoves, GuardMoves DEF Visiting
  <1>f. PICK f \in 0..2 : f = Floor(r, obj[r].level) /\ obj[r].level >= f
    <2>1. Floor(r, obj[r].level) <= obj[r].level
      BY <1>t, FloorFacts
    <2>2. Floor(r, obj[r].level) \in {obj[r].level, 0, 1}
      BY ZenonT(60) DEF Floor
    <2> QED
      BY ZenonT(60), <1>t, <2>1, <2>2, Levels
  <1>k. ASSUME NEW o, o.level = obj[r].level PROVE o.level >= f
    BY ZenonT(60), <1>f, <1>k
  <1>1. ASSUME NEW q \in Managed, NEW o, Store(q, o), q = r => o.level >= f
        PROVE  obj'[r].level >= f
    <2>1. obj' = [obj EXCEPT ![q] = o]
      BY Zenon, <1>1 DEF Store
    <2>2. CASE q = r
      BY ZenonT(60), <1>0, <1>1, <2>1, <2>2
    <2>3. CASE q # r
      BY ZenonT(60), <1>0, <1>f, <2>1, <2>3
    <2> QED
      BY ZenonT(60), <2>2, <2>3
  <1>2. ASSUME obj' = obj PROVE obj'[r].level >= f
    BY ZenonT(60), <1>2, <1>k
  <1>3. ASSUME ensureResource PROVE obj'[r].level >= f
    <2> DEFINE q == Current.res
               c == q = "CcmCsrc" /\ cli
    <2>1. Store(q, ApplyTo(obj[q], my.gen, c)) /\ (InStep("ensure") \/ InStep("reapply"))
      BY Zenon, <1>3 DEF ensureResource
    <2>2. q \in Managed
      BY Zenon, <2>1, CurrentTypes DEF InStep
    <2>3. ApplyTo(obj[r], my.gen, c).level = obj[r].level
      <3>1. ApplyTo(obj[r], my.gen, c) = [obj[r] EXCEPT !.gen = my.gen, !.cli = c]
        BY Zenon, <1>h DEF ApplyTo
      <3> HIDE DEF c
      <3>2. [obj[r] EXCEPT !.gen = my.gen, !.cli = c].level = obj[r].level
        BY Zenon, <1>t DEF Object
      <3> QED
        BY Zenon, <3>1, <3>2
    <2> HIDE DEF q, c
    <2> QED
      BY ZenonT(60), <1>1, <1>k, <2>1, <2>2, <2>3
  <1>4. ASSUME ensureResourceFinalizer PROVE obj'[r].level >= f
    <2> DEFINE q == Current.res
    <2>1. (UNCHANGED objects \/ Store(q, [obj[q] EXCEPT !.guard = "held"])) /\ InStep("ensure")
      BY Zenon, <1>4 DEF ensureResourceFinalizer
    <2>2. q \in Managed
      BY ZenonT(60), <2>1, CurrentTypes DEF InStep
    <2>3. [obj[r] EXCEPT !.guard = "held"].level = obj[r].level
      BY Zenon, <1>t DEF Object
    <2> HIDE DEF q
    <2> QED
      BY ZenonT(60), <1>1, <1>2, <1>k, <2>1, <2>2, <2>3 DEF objects
  <1>5. ASSUME NEW q \in Managed, CollectDependent(q) PROVE obj'[r].level >= f
    <2>1. Store(q, DeleteOf(q, obj[q]))
      BY Zenon, <1>5 DEF CollectDependent, OnObject
    <2>2. DeleteOf(r, obj[r]) = [obj[r] EXCEPT !.del = TRUE]
      BY <1>h DEF DeleteOf
    <2>3. [obj[r] EXCEPT !.del = TRUE].level = obj[r].level
      BY Zenon, <1>t DEF Object
    <2> QED
      BY ZenonT(60), <1>1, <1>k, <2>1, <2>2, <2>3
  <1>6. ASSUME NEW q \in Managed, Advance(q) PROVE obj'[r].level >= f
    <2>1. Store(q, [obj[q] EXCEPT !.level = obj[q].level + 1])
      BY Zenon, <1>6 DEF Advance, OnObject
    <2>2. [obj[r] EXCEPT !.level = obj[r].level + 1].level = obj[r].level + 1
      BY ZenonT(60), <1>t DEF Object
    <2>3. obj[r].level + 1 >= f
      <3>1. Floor(r, obj[r].level) \in {obj[r].level, 0, 1}
        BY Zenon DEF Floor
      <3> QED
        BY ZenonT(60), <1>t, <1>f, LevelUp
    <2> QED
      BY ZenonT(60), <1>1, <2>1, <2>2, <2>3
  <1>7. ASSUME NEW q \in Managed, Regress(q) PROVE obj'[r].level >= f
    <2>1. Store(q, [obj[q] EXCEPT !.level = obj[q].level - 1]) /\ obj[q].level > Floor(q, obj[q].level)
      BY Zenon, <1>7 DEF Regress, OnObject
    <2>2. [obj[r] EXCEPT !.level = obj[r].level - 1].level = obj[r].level - 1
      BY ZenonT(60), <1>t DEF Object
    <2>3. obj[r].level > Floor(r, obj[r].level) => obj[r].level - 1 >= f
      <3>1. Floor(r, obj[r].level) \in {obj[r].level, 0, 1}
        BY Zenon DEF Floor
      <3> QED
        BY ZenonT(60), <1>t, <1>f, LevelDown
    <2> QED
      BY ZenonT(60), <1>1, <1>f, <2>1, <2>2, <2>3
  <1>8. ASSUME NEW q \in Managed, ForeignCleanup(q) PROVE obj'[r].level >= f
    <2>1. Store(q, Absent) /\ obj[q].guard # "held"
      BY Zenon, <1>8 DEF ForeignCleanup, OnObject
    <2> QED
      BY ZenonT(60), <1>1, <2>1
  <1>9. obj'[r].level >= f
    BY ZenonT(60), <1>2, <1>3, <1>4, <1>5, <1>6, <1>7, <1>8, ObjectStep DEF ObjectSteps
  <1> QED
    BY ZenonT(60), <1>9, <1>f, <1>g, <1>t

\* Only the pass that has come to step 14 renders the client cluster.
LEMMA ClientRender ==
    ASSUME TypeOK, StepOK, [Next]_vars,
           obj["ClusterClient"].gen # obj'["ClusterClient"].gen, obj'["ClusterClient"].there
    PROVE  mode = "pipeline" /\ step = 14
  <1>0. PICK k \in Managed : k = "ClusterClient"
    BY DEF Managed, ClientOnly
  <1>t. obj \in [Managed -> Object] /\ obj[k] \in Object
    BY ZenonT(60) DEF TypeOK
  <1>a. ~Absent.there
    BY DEF Absent
  <1>1. mode = "pipeline"
    <2>1. obj'[k] = obj[k] \/ ObjectMove(k, obj'[k])
      BY Zenon, ObjectMoves, OneObject
    <2>2. ReleaseOf(k, obj[k]) = Absent \/ ReleaseOf(k, obj[k]).gen = obj[k].gen
      <3>1. [obj[k] EXCEPT !.guard = "released"].gen = obj[k].gen
        BY Zenon, <1>t DEF Object
      <3> QED
        BY ZenonT(60), <3>1 DEF ReleaseOf
    <2>3. obj[k].gen # obj'[k].gen /\ obj'[k].there
      BY Zenon, <1>0
    <2> QED
      BY ZenonT(60), <1>a, <2>1, <2>2, <2>3 DEF ObjectMove
  <1>2. ASSUME NEW q \in Managed, NEW o, Store(q, o), q = k => o = Absent \/ o.gen = obj[k].gen PROVE FALSE
    <2>1. obj' = [obj EXCEPT ![q] = o]
      BY Zenon, <1>2 DEF Store
    <2>2. obj'[k] = obj[k] \/ (q = k /\ obj'[k] = o)
      BY ZenonT(60), <1>t, <2>1
    <2> QED
      BY ZenonT(60), <1>0, <1>2, <1>a, <2>2
  <1>3. CASE ensureResource
    <2> DEFINE q == Current.res
    <2>1. (InStep("ensure") \/ InStep("reapply")) /\ \E o : Store(q, o)
      BY Zenon, <1>3 DEF ensureResource
    <2>2. q \in Managed /\ step <= LastStep
      BY ZenonT(60), <2>1, CurrentTypes DEF InStep
    <2>3. q = "ClusterClient"
      BY ZenonT(60), <1>0, <1>2, <2>1, <2>2
    <2>4. step \in 1..LastStep
      <3>1. step \in 0..(LastStep + 1) /\ step >= 1
        BY ZenonT(60), <1>1, <2>2 DEF TypeOK, StepOK
      <3> QED
        BY ZenonT(60), <2>2, <3>1, StepIndex, StepNumbers
    <2> QED
      BY ZenonT(60), <1>1, <2>1, <2>3, <2>4, ClientStep DEF InStep, Current
  <1>4. ~ensureResourceFinalizer
    <2> SUFFICES ASSUME ensureResourceFinalizer PROVE FALSE
      OBVIOUS
    <2> DEFINE q == Current.res
    <2>1. (UNCHANGED objects \/ Store(q, [obj[q] EXCEPT !.guard = "held"])) /\ InStep("ensure")
      BY Zenon DEF ensureResourceFinalizer
    <2>2. q \in Managed
      BY ZenonT(60), <2>1, CurrentTypes DEF InStep
    <2>3. [obj[k] EXCEPT !.guard = "held"].gen = obj[k].gen
      BY Zenon, <1>t DEF Object
    <2> HIDE DEF q
    <2> QED
      BY ZenonT(60), <1>0, <1>2, <2>1, <2>2, <2>3 DEF objects
  <1>5. ASSUME NEW q \in Managed, CollectDependent(q) \/ Advance(q) \/ Regress(q) \/ ForeignCleanup(q) PROVE FALSE
    <2>1. \/ Store(q, DeleteOf(q, obj[q])) \/ Store(q, Absent)
          \/ \E l : Store(q, [obj[q] EXCEPT !.level = l])
      BY Zenon, <1>5 DEF CollectDependent, Advance, Regress, ForeignCleanup, OnObject
    <2>2. DeleteOf(k, obj[k]) = Absent \/ DeleteOf(k, obj[k]).gen = obj[k].gen
      BY ZenonT(60), <1>t, ObjectEffects
    <2>3. \A l : [obj[k] EXCEPT !.level = l].gen = obj[k].gen
      BY Zenon, <1>t DEF Object
    <2> QED
      BY ZenonT(60), <1>2, <2>1, <2>2, <2>3
  <1>6. obj' # obj
    BY Zenon
  <1> QED
    BY ZenonT(60), <1>1, <1>3, <1>4, <1>5, <1>6, ObjectStep DEF ObjectSteps

\* A resource that the finalizer protects is as far as the informer shows it, up to what it can fall back from.
LEMMA ShownKept ==
    ASSUME TypeOK, TypeOK', StepOK, Safe, Barred, [Next]_vars, Working', NEW r \in Managed, obj'[r].guard = "held"
    PROVE  obj'[r].level >= Floor(r, cobj'[r].level)
  <1>0. /\ obj[r] \in Object /\ obj'[r] \in Object /\ obj[r].level \in 0..2 /\ obj'[r].level \in 0..2
        /\ cobj[r].level \in 0..2
    BY ZenonT(60) DEF TypeOK, Object, View
  <1>w. Working /\ mode # "delete"
    BY ZenonT(60), ClaimMoves, WorkerMoves, WorkingBack DEF Safe
  <1>v. ViewOf(r, obj[r]).level = obj[r].level
    BY ZenonT(60) DEF ViewOf
  <1>1. ASSUME NEW l \in 0..2, l <= obj'[r].level PROVE obj'[r].level >= Floor(r, l)
    <2>1. Floor(r, l) \in 0..2 /\ Floor(r, l) <= l
      BY ZenonT(60), <1>0, FloorFacts
    <2> QED
      BY ZenonT(60), <1>0, <1>1, <2>1, LevelChain
  <1>2. CASE obj' = obj /\ cobj'[r] = ViewOf(r, obj[r])
    BY ZenonT(60), <1>0, <1>1, <1>2, <1>v, Levels
  <1>3. CASE cobj'[r] = cobj[r]
    <2>1. CASE obj[r].guard = "held"
      <3>1. obj[r].level >= Floor(r, cobj[r].level)
        BY ZenonT(60), <1>w, <2>1 DEF Barred
      <3>2. obj'[r].level >= Floor(r, obj[r].level)
        BY ZenonT(60), <1>w, <2>1, LevelKept DEF Safe
      <3>3. Floor(r, obj[r].level) >= Floor(r, cobj[r].level)
        BY ZenonT(60), <1>0, <3>1, FloorFacts
      <3>4. Floor(r, obj[r].level) \in 0..2 /\ Floor(r, cobj[r].level) \in 0..2
        BY ZenonT(60), <1>0, FloorFacts
      <3>5. obj'[r].level >= Floor(r, cobj[r].level)
        BY ZenonT(60), <1>0, <3>2, <3>3, <3>4, LevelChainDown
      <3> QED
        BY ZenonT(60), <1>3, <3>5
    <2>2. CASE obj[r].guard # "held"
      <3>1. ObjectMove(r, obj'[r])
        BY ZenonT(60), <2>2, ObjectMoves, OneObject
      <3>2. ReleaseOf(r, obj[r]).guard # "held" /\ Absent.guard # "held" /\ "never" # "held"
        BY <1>0 DEF ReleaseOf, Absent, Object
      <3>3. ~dirty[r] /\ obj'[r] = [obj[r] EXCEPT !.guard = "held"]
        BY ZenonT(60), <2>2, <3>1, <3>2 DEF ObjectMove
      <3>4. obj'[r].level = obj[r].level
        BY ZenonT(60), <1>0, <3>3 DEF Object
      <3>5. cobj[r] = ViewOf(r, obj[r])
        BY Zenon, <3>3 DEF Safe, Coherent
      <3>6. cobj'[r].level = obj'[r].level
        BY ZenonT(60), <1>3, <1>v, <3>4, <3>5
      <3> QED
        BY ZenonT(60), <1>0, <1>1, <3>6, Levels
    <2> QED
      BY ZenonT(60), <2>1, <2>2
  <1> QED
    BY ZenonT(60), <1>2, <1>3, ObjectMoves DEF ObjectsMove

\* Every step leaves the barriers that a pass has gone through behind it.
LEMMA BarredKept ==
    ASSUME TypeOK, TypeOK', StepOK, Safe, Traced, Numbered, Barred, [Next]_vars
    PROVE  Barred'
  <1>0. PICK i \in Managed, v \in Managed : i = "ClusterInfra" /\ v = "VaultClaim"
    BY ZenonT(60) DEF Managed, Optional
  <1>l. \A r \in Managed : obj[r].level \in 0..2 /\ obj'[r].level \in 0..2 /\ cobj[r].level \in 0..2
    BY ZenonT(60) DEF TypeOK, Object, View
  <1>t. step \in 0..(LastStep + 1) /\ step' \in 0..(LastStep + 1) /\ LastStep \in Nat
    BY ZenonT(60), StepIndex DEF TypeOK
  <1>m. ClaimMove /\ WorkerMove /\ ObjectsMove /\ PassMove /\ Observed /\ LifeKnown
    BY ZenonT(60), ClaimMoves, WorkerMoves, ObjectMoves, PassMoves DEF Safe
  <1>i. ASSUME mode # "delete", obj[i].guard = "held", obj[i].level = 2 PROVE obj'[i].level = 2
    <2>1. obj'[i].level >= Floor(i, obj[i].level) /\ Floor(i, obj[i].level) = obj[i].level
      BY ZenonT(60), <1>0, <1>i, <1>l, <1>m, LevelKept, FloorFacts
    <2>2. obj'[i].level >= 2
      BY ZenonT(60), <1>i, <2>1
    <2> QED
      BY ZenonT(60), <1>l, <2>2, TopLevel
  <1>v. ASSUME mode # "delete", obj[v].guard = "held", obj[v].level >= 1 PROVE obj'[v].level >= 1
    <2>1. obj'[v].level >= Floor(v, obj[v].level) /\ Floor(v, obj[v].level) = 1
      BY ZenonT(60), <1>0, <1>l, <1>m, <1>v, LevelKept, FloorFacts
    <2> QED
      BY ZenonT(60), <1>l, <2>1
  <1>1. Working' => \A r \in Managed : obj'[r].guard = "held" => obj'[r].level >= Floor(r, cobj'[r].level)
    BY Zenon, ShownKept
  <1>2. ASSUME mode' = "pipeline", step' > 8 PROVE obj'[i].level = 2
    <2>1. /\ mode = "pipeline"
          /\ step > 8 \/ (Continues /\ step = 8 /\ Current = pipelineSteps[8])
      BY ZenonT(60), <1>2, <1>m, BarrierData, Passing
    <2>2. step > 5
      BY ZenonT(60), <1>t, <2>1, StepNumbers
    <2>3. obj[i].guard = "held" /\ mode # "delete" /\ Working
      BY ZenonT(60), <1>0, <2>1, <2>2 DEF Traced, InfraHeld, Working
    <2>4. CASE step > 8
      BY ZenonT(60), <1>0, <1>i, <2>1, <2>3, <2>4 DEF Barred
    <2>5. CASE Continues /\ step = 8 /\ Current = pipelineSteps[8]
      <3>1. Current.op = "await" /\ Current.res = i /\ Current.level = 2
        BY ZenonT(60), <1>0, <2>5, BarrierData
      <3>2. AwaitStep
        BY ZenonT(60), <2>5, <3>1 DEF Continues, ensureResource, ensureResourceFinalizer, KmsStep, RemoteConnect,
                          applyRemoteConfigMap, InStep
      <3>g. ~GoIdle
        BY <1>2 DEF GoIdle
      <3>3. cobj[i].level >= 2
        BY ZenonT(60), <3>1, <3>2, <3>g DEF AwaitStep, Wait, TransientError, EndPass
      <3>4. obj[i].level >= Floor(i, cobj[i].level) /\ Floor(i, cobj[i].level) = cobj[i].level
        BY ZenonT(60), <1>0, <1>l, <2>3, FloorFacts DEF Barred
      <3>5. cobj[i].level = 2
        BY ZenonT(60), <1>l, <3>3, TopLevel
      <3>6. obj[i].level >= 2
        BY ZenonT(60), <3>4, <3>5
      <3>7. obj[i].level = 2
        BY ZenonT(60), <1>l, <3>6, TopLevel
      <3> QED
        BY ZenonT(60), <1>i, <2>3, <3>7
    <2> QED
      BY ZenonT(60), <2>1, <2>4, <2>5
  <1>3. ASSUME mode' = "pipeline", v \in my'.refs, step' > 9 PROVE obj'[v].guard = "held"
    <2>1. /\ mode = "pipeline" /\ my' = my
          /\ step > 9 \/ (Continues /\ step = 9 /\ Current = pipelineSteps[9])
      BY ZenonT(60), <1>0, <1>3, <1>m, BarrierData, Passing
    <2>2. mode # "delete" /\ Working
      BY <2>1 DEF Working
    <2>h. obj[v].guard = "held" => obj'[v].guard = "held"
      BY ZenonT(60), <1>m, <2>2, LevelKept
    <2>3. CASE step > 9
      BY ZenonT(60), <1>0, <1>3, <2>1, <2>3, <2>h DEF Barred
    <2>4. CASE Continues /\ step = 9 /\ Current = pipelineSteps[9]
      <3>1. Current.op = "ensure" /\ Current.res = v
        BY ZenonT(60), <1>0, <2>4, BarrierData
      <3>2. ensureResource \/ ensureResourceFinalizer
        BY ZenonT(60), <2>4, <3>1 DEF Continues, AwaitStep, KmsStep, RemoteConnect, applyRemoteConfigMap, InStep
      <3>3. ~ensureResource
        <4>1. ensureResource => step' = step
          BY Zenon, <3>1 DEF ensureResource
        <4> QED
          BY ZenonT(60), <1>3, <1>t, <2>4, <4>1, StepNumbers
      <3>4. cobj[v].fin \/ Store(v, [obj[v] EXCEPT !.guard = "held"])
        BY ZenonT(60), <3>1, <3>2, <3>3 DEF ensureResourceFinalizer
      <3>5. CASE cobj[v].fin
        BY ZenonT(60), <2>2, <2>h, <3>5 DEF Traced
      <3>6. CASE Store(v, [obj[v] EXCEPT !.guard = "held"])
        <4>1. obj \in [Managed -> Object] /\ obj[v] \in Object
          BY ZenonT(60) DEF TypeOK
        <4>2. obj'[v] = [obj[v] EXCEPT !.guard = "held"]
          BY ZenonT(60), <3>6, <4>1 DEF Store
        <4> QED
          BY ZenonT(60), <4>1, <4>2 DEF Object
      <3> QED
        BY ZenonT(60), <3>4, <3>5, <3>6
    <2> QED
      BY ZenonT(60), <2>1, <2>3, <2>4
  <1>4. ASSUME mode' = "pipeline", v \in my'.refs, step' > 13, ~Keyless(my'.gen) PROVE obj'[v].level >= 1
    <2>1. /\ mode = "pipeline" /\ my' = my
          /\ step > 13 \/ (Continues /\ step = 13 /\ Current = pipelineSteps[13])
      BY ZenonT(60), <1>0, <1>4, <1>m, BarrierData, Passing
    <2>2. step > 9
      BY ZenonT(60), <1>t, <2>1, StepNumbers
    <2>3. obj[v].guard = "held" /\ mode # "delete" /\ Working
      BY ZenonT(60), <1>0, <1>4, <2>1, <2>2 DEF Barred, Working
    <2>4. CASE step > 13
      BY ZenonT(60), <1>0, <1>4, <1>v, <2>1, <2>3, <2>4 DEF Barred
    <2>5. CASE Continues /\ step = 13 /\ Current = pipelineSteps[13]
      <3>1. Current.op = "kms"
        BY ZenonT(60), <2>5, BarrierData
      <3>2. KmsStep
        BY ZenonT(60), <2>5, <3>1 DEF Continues, ensureResource, ensureResourceFinalizer, AwaitStep, RemoteConnect,
                          applyRemoteConfigMap, InStep
      <3>g. ~GoIdle
        BY <1>4 DEF GoIdle
      <3>3. cobj[v].there /\ ~(cobj[v].keys /\ cobj[v].level < 1)
        BY ZenonT(60), <1>0, <3>2, <3>g DEF KmsStep, Wait, EndPass
      <3>4. cobj[v].keys
        BY ZenonT(60), <1>0, <1>4, <2>1, <3>3 DEF Numbered, KeylessView
      <3>5. cobj[v].level >= 1
        BY ZenonT(60), <1>l, <3>3, <3>4, Levels
      <3>6. obj[v].level >= Floor(v, cobj[v].level) /\ Floor(v, cobj[v].level) = 1
        BY ZenonT(60), <1>0, <1>l, <2>3, <3>5, FloorFacts DEF Barred
      <3>7. obj[v].level >= 1
        BY ZenonT(60), <1>l, <3>6
      <3> QED
        BY ZenonT(60), <1>v, <2>3, <3>7
    <2> QED
      BY ZenonT(60), <2>1, <2>4, <2>5
  <1> QED
    BY ZenonT(60), <1>0, <1>1, <1>2, <1>3, <1>4 DEF Barred

\* Initially nothing is rendered and no pass runs.
LEMMA InitBarred == Init => Barred
  <1> SUFFICES ASSUME Init PROVE Barred
    OBVIOUS
  <1>1. mode = "idle" /\ obj = [r \in Managed |-> Absent]
    BY Zenon DEF Init
  <1>2. mode # "pipeline" /\ \A r \in Managed : obj[r] = Absent
    BY <1>1
  <1>3. Absent.guard # "held"
    BY DEF Absent
  <1> QED
    BY ZenonT(60), <1>2, <1>3 DEF Barred

\* From the moves of a step, by the lemmas above.
LEMMA BarredAlways == Spec => []Barred
  <1>1. TypeOK /\ StepOK /\ Safe /\ Traced /\ Numbered /\ TypeOK' /\ Barred /\ [Next]_vars => Barred'
    BY ZenonT(60), BarredKept
  <1> QED
    BY <1>1, InitBarred, NumberedAlways, TracedAlways, TypeCorrect, Safety, PTL DEF Spec

\* The client cluster is rendered only while the infra control plane is initialized.
ClientAfterInfra ==
    [][obj["ClusterClient"].gen # obj'["ClusterClient"].gen /\ obj'["ClusterClient"].there
         => obj["ClusterInfra"].level = 2]_vars

(***************************************************************************)
(* Whatever the spec configures, the client cluster is rendered only while *)
(* the infra control plane is initialized: a pass that comes to            *)
(* stepClusterClient has gone through stepWaitInfraCPReady, and neither    *)
(* restarts, spec edits nor a deletion under way take that back before the *)
(* delete passes.                                                          *)
(***************************************************************************)
THEOREM ClientWaitsForInfra == Spec => ClientAfterInfra
  <1>1. TypeOK /\ StepOK /\ Barred /\ [Next]_vars =>
          (obj["ClusterClient"].gen # obj'["ClusterClient"].gen /\ obj'["ClusterClient"].there
             => obj["ClusterInfra"].level = 2)
    <2> SUFFICES ASSUME TypeOK, StepOK, Barred, [Next]_vars,
                        obj["ClusterClient"].gen # obj'["ClusterClient"].gen, obj'["ClusterClient"].there
                 PROVE  obj["ClusterInfra"].level = 2
      OBVIOUS
    <2>1. mode = "pipeline" /\ step = 14
      BY ZenonT(60), ClientRender
    <2>2. step > 8
      BY <2>1
    <2> QED
      BY ZenonT(60), <2>1, <2>2 DEF Barred
  <1> QED
    BY <1>1, BarredAlways, TypeCorrect, PTL DEF Spec, ClientAfterInfra

(***************************************************************************)
(* Where edits take transit keys away but never add them, the client       *)
(* cluster starts last (ClientClusterStartsLast): the KMS barrier of a     *)
(* pass whose spec has keys sees no VaultClaim without them, and the keys  *)
(* it has seen made stay.  Keys that an edit adds can be overtaken by a    *)
(* pass that still sees the VaultClaim of before, so the hypothesis is     *)
(* needed.                                                                 *)
(***************************************************************************)
THEOREM ClientStartsLast ==
    ASSUME \A g \in KeyedGens : 1..g \subseteq KeyedGens
    PROVE  Spec => ClientClusterStartsLast
  <1>1. TypeOK /\ StepOK /\ Barred /\ [Next]_vars =>
          (obj["ClusterClient"].gen # obj'["ClusterClient"].gen /\ obj'["ClusterClient"].there =>
             /\ obj["ClusterInfra"].level = 2
             /\ "VaultClaim" \in my.refs /\ my.gen \in KeyedGens => obj["VaultClaim"].level >= 1)
    <2> SUFFICES ASSUME TypeOK, StepOK, Barred, [Next]_vars,
                        obj["ClusterClient"].gen # obj'["ClusterClient"].gen, obj'["ClusterClient"].there
                 PROVE  /\ obj["ClusterInfra"].level = 2
                        /\ "VaultClaim" \in my.refs /\ my.gen \in KeyedGens => obj["VaultClaim"].level >= 1
      BY Zenon
    <2>1. mode = "pipeline" /\ step = 14
      BY ZenonT(60), ClientRender
    <2>2. step > 8 /\ step > 13
      BY <2>1
    <2>3. my.gen \in KeyedGens => ~Keyless(my.gen)
      BY Zenon DEF Keyless
    <2> QED
      BY ZenonT(60), <2>1, <2>2, <2>3 DEF Barred
  <1> QED
    BY <1>1, BarredAlways, TypeCorrect, PTL DEF Spec, ClientClusterStartsLast

=================================================================================
