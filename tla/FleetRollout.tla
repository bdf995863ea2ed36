------------------------------ MODULE FleetRollout -----------------------------
(***************************************************************************)
(* Proofs that every change is rolled out to every claim it concerns: a    *)
(* claim that failed or is left alone still has a cause (from Aware        *)
(* alone), and the objects of a settled claim are up to date, as are the   *)
(* mirror and the phase if the last pass could store them (Sound).         *)
(***************************************************************************)
EXTENDS FleetProofs

\* Time limits for the provers, in seconds.
USE SMTT(60), ZenonT(60)

\* The template a step of a pass with these references would find now.
Cached(refs, s) == IF s.field \in DOMAIN refs THEN ctmpl[refs[s.field]] ELSE NoTemplate

\* The informer's copy of a claim is never ahead of the claim.
Behind == \A c \in Claims : cspec[c].gen <= spec[c].gen

\* The pass of a claim that is not queued works on what the informer shows.
Known(c) == c \notin queued /\ pass[c] # NoPass => pass[c].spec = cspec[c]

\* The last pass of the claim is over, no object of it was rejected, and it will not be repeated or it stored Failed.
Stuck(c) ==
    /\ pass[c] = NoPass /\ cspec[c] = spec[c] /\ ~outcome[c].rejected
    /\ c \notin timer \/ (status[c].phase = "Failed" /\ ~outcome[c].lost)

\* The first step that the last pass of such a claim did not get through has a template that cannot be used.
Failing(c) ==
    c \notin queued /\ Stuck(c) =>
      LET i == NextRender(c, cspec[c].refs, outcome[c].through)
          s == renderSteps[i]
          t == Cached(cspec[c].refs, s) IN
      i \in 1..Last /\ (t = NoTemplate \/ ~t.ok \/ (s.field \in VaultFamily /\ t.kind # s.kind))

Aware == Behind /\ \A c \in Claims : Known(c) /\ Failing(c)

\* Generations only grow, and the informer only catches up.
LEMMA BehindKept == ASSUME Typed, Behind, [Next]_vars PROVE Behind'
  <1>1. UNCHANGED <<spec, cspec>> => Behind'
    BY DEF Behind
  <1>2. ASSUME NEW c \in Claims, SyncClaim(c) PROVE Behind'
    <2>1. cspec' = [cspec EXCEPT ![c] = spec[c]] /\ spec' = spec
      BY <1>2 DEF SyncClaim
    <2> QED
      BY <2>1 DEF Behind, Typed, TypeOK
  <1>3. ASSUME NEW e \in Edits, EditClaim(e) PROVE Behind'
    <2>1. /\ spec' = [spec EXCEPT ![e[1]] = [gen |-> spec[e[1]].gen + 1, refs |-> Put(spec[e[1]].refs, e[2], e[3])]]
          /\ cspec' = cspec
      BY <1>3 DEF EditClaim
    <2>2. \A c \in Claims : spec[c].gen \in Nat /\ cspec[c].gen \in Nat
      BY DEF Typed, TypeOK
    <2>3. \A c \in Claims : spec'[c].gen = spec[c].gen \/ spec'[c].gen = spec[c].gen + 1
      BY <2>1 DEF Typed, TypeOK
    <2> QED
      BY <2>1, <2>2, <2>3 DEF Behind
  <1>4. ASSUME NEW c \in Claims, Begin(c) \/ CheckTemplateKind(c) \/ ensureResource(c) \/ AwaitCluster(c) \/ Ready(c)
                                 \/ StepFails(c) \/ ApplyRejected(c) \/ TimerFires(c)
        PROVE  UNCHANGED <<spec, cspec>>
    BY <1>4, Zenon DEF Begin, CheckTemplateKind, ensureResource, AwaitCluster, Ready, StepFails, ApplyRejected, TimerFires
  <1>5. ASSUME NEW t \in Mutable, UpdateTemplate(t) \/ DeleteTemplate(t) \/ CreateTemplate(t) \/ SyncTemplate(t)
        PROVE  UNCHANGED <<spec, cspec>>
    BY <1>5, Zenon DEF UpdateTemplate, DeleteTemplate, CreateTemplate, SyncTemplate, WriteTemplate
  <1>6. ASSUME NEW k \in ClusterKeys, ClusterUp(k) \/ ClusterReports(k) \/ ClusterGone(k) \/ ControlPlaneReports(k)
        PROVE  UNCHANGED <<spec, cspec>>
    BY <1>6, Zenon DEF ClusterUp, ClusterReports, ClusterGone, ControlPlaneReports, OnCluster
  <1>7. CASE UNCHANGED vars
    BY <1>1, <1>7 DEF vars
  <1> QED
    BY <1>1, <1>2, <1>3, <1>4, <1>5, <1>6, <1>7, ZenonT(60) DEF Next, Step

\* The informer shows the same claim as before and the claim it shows is current: so was it before.
LEMMA StillCurrent ==
    ASSUME Typed, Behind, NEW c \in Claims, Unnoticed(c), cspec'[c] = spec'[c] PROVE spec'[c] = spec[c] /\ cspec[c] = spec[c]
  <1>1. cspec[c].gen \in Nat /\ spec[c].gen \in Nat /\ cspec[c].gen <= spec[c].gen
    BY DEF Typed, TypeOK, Behind
  <1>2. cspec'[c] = cspec[c] /\ (spec'[c] = spec[c] \/ spec'[c].gen = spec[c].gen + 1)
    BY DEF Unnoticed
  <1>3. spec'[c].gen # spec[c].gen + 1
    BY <1>1, <1>2
  <1> QED
    BY <1>2, <1>3

\* How a pass ends; a write that was not lost left the status it computed.
LEMMA EndEffect ==
    ASSUME Typed, NEW c \in Claims, NEW phase, NEW requeue, NEW rejected, End(c, phase, requeue, rejected)
    PROVE  /\ pass'[c] = NoPass /\ outcome'[c].through = pass[c].at - 1 /\ outcome'[c].rejected = rejected
           /\ ~outcome'[c].lost => status'[c].phase = phase /\ status'[c].mirror = pass[c].mirror
           /\ requeue => c \in timer'
  <1> DEFINE new == [phase |-> phase, mirror |-> pass[c].mirror]
             o == [through |-> pass[c].at - 1, rejected |-> rejected, lost |-> status'[c] # new]
  <1>1. /\ pass' = [pass EXCEPT ![c] = NoPass] /\ outcome' = [outcome EXCEPT ![c] = o]
        /\ requeue => c \in timer'
    BY Zenon DEF End
  <1>2. pass'[c] = NoPass /\ outcome'[c] = o
    BY Zenon, <1>1 DEF Typed, TypeOK
  <1>3. o.through = pass[c].at - 1 /\ o.rejected = rejected /\ (~o.lost => status'[c] = new)
    BY Zenon
  <1>4. new.phase = phase /\ new.mirror = pass[c].mirror
    BY Zenon
  <1> HIDE DEF o, new
  <1> QED
    BY Zenon, <1>1, <1>2, <1>3, <1>4

\* The ways a pass can end.
Ends(c) ==
    \/ End(c, "Failed", FALSE, FALSE) /\ UNCHANGED <<objects, queued>> /\ pass[c].at \in 1..Last /\ Cause(c, Template(c))
    \/ End(c, "Failed", FALSE, TRUE)
    \/ End(c, "Provisioning", TRUE, FALSE)
    \/ End(c, "WaitingDependency", TRUE, FALSE)
    \/ End(c, "Ready", TRUE, FALSE) /\ pass[c].at > Last

\* A step of a claim's pass ends it in one of these ways or leaves it on the same claim.
LEMMA EndsOrGoes ==
    ASSUME Typed, NEW c \in Claims, PassMove(c)
    PROVE  Ends(c) \/ (pass'[c] # NoPass /\ pass'[c].spec = pass[c].spec /\ pass'[c].mirror = pass[c].mirror)
  <1> DEFINE Goes == pass'[c] # NoPass /\ pass'[c].spec = pass[c].spec /\ pass'[c].mirror = pass[c].mirror
  <1>1. pass[c] # NoPass /\ pass[c].ctx \in Contexts
    BY DEF PassMove, Typed, TypeOK, PassesWith
  <1>2. ASSUME NEW i, NEW sub, NEW ctx \in Contexts, Goto(c, i, sub, ctx),
               \/ i = pass[c].at /\ i \in 1..Last /\ sub = "apply"
               \/ i = pass[c].at /\ i \in 1..Last /\ sub = "await" /\ Current(c).kind = "Cluster"
               \/ pass[c].at \in 1..Last /\ i = NextRender(c, pass[c].spec.refs, pass[c].at) /\ sub = FirstCall(i)
        PROVE  Goes
    BY Zenon, <1>1, <1>2, GotoTypes
  <1> HIDE DEF Goes
  <1>3. ASSUME NEW ctx \in Contexts, pass[c].at \in 1..Last, Proceed(c, ctx) PROVE Goes
    BY <1>2, <1>3 DEF Proceed
  <1>4. CASE EndsIdle(c)
    BY <1>4, Zenon DEF EndsIdle, Ends
  <1>5. CASE Checked(c)
    BY ZenonT(60), <1>1, <1>2, <1>5 DEF Checked, At, Goes
  <1>6. ASSUME NEW r, Awaited(c, r) PROVE Goes
    BY <1>1, <1>3, <1>6, AwaitedContext DEF Awaited, At
  <1>7. ASSUME NEW t, NEW k, NEW o, AppliesOne(c, t, k, o) PROVE Ends(c) \/ Goes
    <2>1. pass[c].at \in 1..Last
      BY <1>7 DEF AppliesOne, Applies
    <2>2. CASE End(c, "Provisioning", TRUE, FALSE)
      BY <2>2, Zenon DEF Ends
    <2>3. CASE Current(c).kind = "Cluster" /\ Goto(c, pass[c].at, "await", pass[c].ctx)
      BY ZenonT(60), <1>1, <1>2, <2>1, <2>3
    <2>4. CASE Proceed(c, pass[c].ctx)
      BY <1>1, <1>3, <2>1, <2>4
    <2> QED
      BY ZenonT(60), <1>7, <2>2, <2>3, <2>4 DEF AppliesOne
  <1> QED
    BY <1>4, <1>5, <1>6, <1>7 DEF PassMove, Goes

\* Every step keeps a claim's awareness of what it works on and of why it failed.
LEMMA AwareKept == ASSUME Typed, Aware, [Next]_vars PROVE Aware'
  <1>1. Behind'
    BY BehindKept DEF Aware
  <1>2. ASSUME NEW c \in Claims, c \notin queued' PROVE Known(c)' /\ Failing(c)'
    <2>1. CASE Begin(c)
      <3>1. pass'[c] # NoPass /\ pass'[c].spec = cspec[c] /\ cspec' = cspec
        BY Zenon, <2>1, BeginTypes DEF Begin
      <3> QED
        BY Zenon, <3>1 DEF Known, Failing, Stuck
    <2>2. CASE PassMove(c) /\ c \notin queued
      <3>1. pass[c] # NoPass /\ pass[c].spec = cspec[c] /\ UNCHANGED Around
        BY <2>2 DEF PassMove, Aware, Known
      <3>2. spec' = spec /\ cspec' = cspec /\ ctmpl' = ctmpl
        BY ZenonT(60), <3>1 DEF Around
      <3>3. CASE pass'[c] # NoPass /\ pass'[c].spec = pass[c].spec
        BY ZenonT(60), <3>1, <3>2, <3>3 DEF Known, Failing, Stuck
      <3>4. CASE Ends(c)
        <4>1. pass'[c] = NoPass
          BY <3>4, EndEffect, Zenon DEF Ends
        <4>2. ASSUME Stuck(c)' PROVE Failing(c)'
          <5>1. ~outcome'[c].rejected /\ (c \in timer' => status'[c].phase = "Failed" /\ ~outcome'[c].lost)
            BY Zenon, <4>2 DEF Stuck
          <5>2. /\ ~End(c, "Failed", FALSE, TRUE) /\ ~End(c, "Provisioning", TRUE, FALSE)
                /\ ~End(c, "WaitingDependency", TRUE, FALSE) /\ ~End(c, "Ready", TRUE, FALSE)
            <6>1. ASSUME NEW phase, NEW requeue, NEW rejected, End(c, phase, requeue, rejected)
                  PROVE  ~rejected /\ (requeue => phase = "Failed")
              <7>1. /\ outcome'[c].rejected = rejected /\ (~outcome'[c].lost => status'[c].phase = phase)
                    /\ requeue => c \in timer'
                BY <6>1, EndEffect
              <7> QED
                BY Zenon, <5>1, <7>1
            <6>2. "Provisioning" # "Failed" /\ "WaitingDependency" # "Failed" /\ "Ready" # "Failed"
              OBVIOUS
            <6> QED
              BY Zenon, <6>1, <6>2
          <5>3. End(c, "Failed", FALSE, FALSE) /\ pass[c].at \in 1..Last /\ Cause(c, Template(c))
            BY Zenon, <3>4, <5>2 DEF Ends
          <5>4. outcome'[c].through = pass[c].at - 1
            BY Zenon, <5>3, EndEffect
          <5>5. ~Skipped(c, cspec[c].refs, renderSteps[pass[c].at])
            BY <3>1, <5>3 DEF Typed, AllPlaced, Placed, Current
          <5>6. NextRender(c, cspec[c].refs, pass[c].at - 1) = pass[c].at
            BY <5>3, <5>5, NextIsCurrent
          <5>7. Template(c) = Cached(cspec[c].refs, renderSteps[pass[c].at])
            BY <3>1 DEF Template, Cached, Current
          <5> DEFINE i == pass[c].at
                     s == renderSteps[i]
                     t == IF s.field \in DOMAIN cspec'[c].refs THEN ctmpl'[cspec'[c].refs[s.field]] ELSE NoTemplate
          <5>8. t = Template(c)
            BY Zenon, <3>2, <5>7 DEF Cached
          <5>9. t = NoTemplate \/ ~t.ok \/ (s.field \in VaultFamily /\ t.kind # s.kind)
            BY Zenon, <5>3, <5>8 DEF Cause, Current
          <5>10. NextRender(c, cspec'[c].refs, outcome'[c].through) = i
            BY ZenonT(60), <3>2, <5>4, <5>6
          <5> QED
            BY <5>3, <5>9, <5>10, Zenon DEF Failing, Cached
        <4> QED
          BY ZenonT(60), <4>1, <4>2 DEF Known, Failing
      <3> QED
        BY ZenonT(60), <2>2, <3>3, <3>4, EndsOrGoes
    <2>3. CASE Unnoticed(c)
      <3>1. /\ c \notin queued /\ pass'[c] = pass[c] /\ status'[c] = status[c] /\ outcome'[c] = outcome[c]
            /\ cspec'[c] = cspec[c] /\ (c \in timer => c \in timer')
            /\ \A f \in DOMAIN cspec[c].refs : ctmpl'[cspec[c].refs[f]] = ctmpl[cspec[c].refs[f]]
        BY <2>3 DEF Unnoticed
      <3>2. Known(c)'
        BY <3>1 DEF Aware, Known
      <3>3. ASSUME Stuck(c)' PROVE Failing(c)'
        <4>1. Stuck(c)
          <5>1. cspec[c] = spec[c]
            BY Zenon, <2>3, <3>3, StillCurrent DEF Aware, Stuck
          <5> QED
            BY Zenon, <3>1, <3>3, <5>1 DEF Stuck
        <4> DEFINE i == NextRender(c, cspec[c].refs, outcome[c].through)
                   s == renderSteps[i]
                   t == IF s.field \in DOMAIN cspec[c].refs THEN ctmpl[cspec[c].refs[s.field]] ELSE NoTemplate
                   u == IF s.field \in DOMAIN cspec'[c].refs THEN ctmpl'[cspec'[c].refs[s.field]] ELSE NoTemplate
        <4>2. i \in 1..Last /\ (t = NoTemplate \/ ~t.ok \/ (s.field \in VaultFamily /\ t.kind # s.kind))
          BY <3>1, <3>3, <4>1, Zenon DEF Aware, Failing, Cached
        <4>3. u = t
          BY Zenon, <3>1
        <4>4. NextRender(c, cspec'[c].refs, outcome'[c].through) = i
          BY <3>1
        <4>5. u = NoTemplate \/ ~u.ok \/ (s.field \in VaultFamily /\ u.kind # s.kind)
          BY Zenon, <4>2, <4>3
        <4> HIDE DEF i
        <4> QED
          BY <4>2, <4>4, <4>5, Zenon DEF Failing, Cached
      <3> QED
        BY ZenonT(60), <3>2, <3>3 DEF Failing
    <2> QED
      BY ZenonT(60), <1>2, <2>1, <2>2, <2>3, Noticed
  <1>3. ASSUME NEW c \in Claims, c \in queued' PROVE Known(c)' /\ Failing(c)'
    BY <1>3 DEF Known, Failing
  <1> QED
    BY <1>1, <1>2, <1>3 DEF Aware

\* The operator starts with every claim queued.
LEMMA AwareStarts == Init => Aware
  <1> SUFFICES ASSUME Init PROVE Aware
    OBVIOUS
  <1>1. queued = Claims /\ cspec = spec /\ \A c \in Claims : spec[c].gen \in Nat
    BY Zenon DEF Init
  <1> QED
    BY <1>1 DEF Aware, Behind, Known, Failing

(***************************************************************************)
(* A claim that is left alone, or shown as Failed by its last pass, has a  *)
(* cause that is still there unless the API server rejected an object: for *)
(* any number of claims, templates and workers and any history of edits,   *)
(* template changes, failing calls, lost writes and cluster events.        *)
(***************************************************************************)
THEOREM FailuresAreCaused == Spec => []FailureHasACause
  <1>1. Aware => FailureHasACause
    <2> SUFFICES ASSUME Aware, NEW c \in Claims, Settled(c), ~outcome[c].rejected,
                        c \notin timer \/ (status[c].phase = "Failed" /\ ~outcome[c].lost)
                 PROVE  LET s == renderSteps[NextRender(c, spec[c].refs, outcome[c].through)]
                            t == IF s.field \in DOMAIN spec[c].refs THEN tmpl[spec[c].refs[s.field]] ELSE NoTemplate IN
                        t = NoTemplate \/ ~t.ok \/ (s.field \in VaultFamily /\ t.kind # s.kind)
      BY Zenon DEF FailureHasACause, NextTemplate
    <2> DEFINE s == renderSteps[NextRender(c, spec[c].refs, outcome[c].through)]
               t == IF s.field \in DOMAIN spec[c].refs THEN ctmpl[spec[c].refs[s.field]] ELSE NoTemplate
               u == IF s.field \in DOMAIN spec[c].refs THEN tmpl[spec[c].refs[s.field]] ELSE NoTemplate
    <2>1. c \notin queued /\ pass[c] = NoPass /\ cspec[c] = spec[c]
          /\ \A f \in DOMAIN spec[c].refs : ctmpl[spec[c].refs[f]] = tmpl[spec[c].refs[f]]
      BY DEF Settled
    <2>2. t = NoTemplate \/ ~t.ok \/ (s.field \in VaultFamily /\ t.kind # s.kind)
      BY <2>1, Zenon DEF Aware, Failing, Stuck, Cached
    <2>3. u = t
      BY Zenon, <2>1
    <2> HIDE DEF s
    <2> QED
      BY Zenon, <2>2, <2>3 DEF s
  <1> QED
    BY <1>1, Types, AwareStarts, AwareKept, PTL DEF Spec

-------------------------------------------------------------------------------
\* A sequence with one element put before it.
LEMMA OneBefore ==
    ASSUME NEW a, NEW b, NEW s \in Seq(STRING), NEW t \in Seq(STRING), <<a>> \o s = <<b>> \o t PROVE a = b /\ s = t
  <1> DEFINE S == STRING \union {a, b}
  <1>1. s \in Seq(S) /\ t \in Seq(S) /\ a \in S /\ b \in S
    OBVIOUS
  <1> HIDE DEF S
  <1>2. <<a>> \in Seq(S) /\ Len(<<a>>) = 1 /\ <<a>>[1] = a /\ <<b>> \in Seq(S) /\ Len(<<b>>) = 1 /\ <<b>>[1] = b
    BY <1>1
  <1>3. Len(s) \in Nat /\ Len(t) \in Nat
    BY <1>1, LenProperties
  <1> DEFINE p == <<a>>
             q == <<b>>
  <1>4. p \in Seq(S) /\ Len(p) = 1 /\ p[1] = a /\ q \in Seq(S) /\ Len(q) = 1 /\ q[1] = b /\ p \o s = q \o t
    BY <1>2
  <1> HIDE DEF p, q
  <1>5. ASSUME NEW u \in Seq(S), NEW v \in Seq(S), Len(u) = 1
        PROVE  /\ Len(u \o v) = 1 + Len(v) /\ (u \o v)[1] = u[1]
               /\ \A i \in 1..Len(v) : (u \o v)[i + 1] = v[i]
    <2> DEFINE w == u \o v
    <2>1. /\ Len(w) = Len(u) + Len(v)
          /\ \A i \in 1..Len(u) + Len(v) : w[i] = IF i <= Len(u) THEN u[i] ELSE v[i - Len(u)]
      BY Zenon, <1>5, ConcatProperties
    <2>2. Len(v) \in Nat
      BY <1>5, LenProperties
    <2> HIDE DEF w
    <2>3. Len(w) = 1 + Len(v) /\ w[1] = u[1]
      BY <1>5, <2>1, <2>2
    <2>4. ASSUME NEW i \in 1..Len(v) PROVE w[i + 1] = v[i]
      <3>1. i + 1 \in 1..Len(u) + Len(v) /\ ~(i + 1 <= Len(u)) /\ (i + 1) - Len(u) = i
        BY <1>5, <2>2
      <3> QED
        BY <2>1, <3>1
    <2> QED
      BY <2>3, <2>4 DEF w
  <1>6. /\ Len(p \o s) = 1 + Len(s) /\ (p \o s)[1] = a /\ \A i \in 1..Len(s) : (p \o s)[i + 1] = s[i]
        /\ Len(q \o t) = 1 + Len(t) /\ (q \o t)[1] = b /\ \A i \in 1..Len(t) : (q \o t)[i + 1] = t[i]
    <2>1. Len(p \o s) = 1 + Len(s) /\ (p \o s)[1] = a /\ \A i \in 1..Len(s) : (p \o s)[i + 1] = s[i]
      BY ZenonT(60), <1>1, <1>4, <1>5
    <2>2. Len(q \o t) = 1 + Len(t) /\ (q \o t)[1] = b /\ \A i \in 1..Len(t) : (q \o t)[i + 1] = t[i]
      BY ZenonT(60), <1>1, <1>4, <1>5
    <2> QED
      BY <2>1, <2>2
  <1>7. Len(s) = Len(t) /\ a = b /\ \A i \in 1..Len(s) : s[i] = t[i]
    BY <1>3, <1>4, <1>6
  <1> QED
    BY <1>1, <1>7, SeqEqual

\* A name is not empty, so what is in a claim's cluster is not in its namespace.
LEMMA PlacesDiffer ==
    ASSUME NEW a, NEW b, NEW s \in Seq(STRING), s # <<>> PROVE <<a>> # <<b>> \o s
  <1> SUFFICES ASSUME <<a>> = <<b>> \o s PROVE FALSE
    OBVIOUS
  <1>1. <<>> \in Seq(STRING) /\ <<a>> = <<a>> \o <<>>
    OBVIOUS
  <1>2. s = <<>>
    BY <1>1, OneBefore
  <1> QED
    BY <1>2

\* Only the same step of the same claim addresses a ConfigMap in a claim's cluster.
LEMMA ConfigMapIsOwn ==
    ASSUME NEW c \in Claims, NEW d \in Claims, NEW i \in 1..Last, NEW j \in 1..Last, NEW x, NEW y,
           renderSteps[i].kind = "ConfigMap", Key(c, renderSteps[i], x) = Key(d, renderSteps[j], y)
    PROVE  c = d /\ i = j
  <1> DEFINE s == renderSteps[i]
             t == renderSteps[j]
  <1>1. c \in ClaimKeys /\ d \in ClaimKeys /\ c.name \in Seq(STRING) /\ d.name \in Seq(STRING) /\ c.name # <<>>
    BY FleetAssumption DEF ClaimKeys
  <1>2. place(c, s) = place(d, t) /\ resourceName(c, s) = resourceName(d, t)
    BY DEF Key
  <1>3. place(c, s) = <<c.ns>> \o c.name /\ resourceName(c, s) = <<"parameters", s.part>>
    BY DEF place, resourceName, ConfigMapName
  <1> HIDE DEF s
  <1>4. t.kind = "ConfigMap"
    BY Zenon, <1>1, <1>2, <1>3, PlacesDiffer DEF place
  <1>5. place(d, t) = <<d.ns>> \o d.name /\ resourceName(d, t) = <<"parameters", t.part>>
    BY <1>4 DEF place, resourceName, ConfigMapName
  <1>6. c.ns = d.ns /\ c.name = d.name
    BY ZenonT(60), <1>1, <1>2, <1>3, <1>5, OneBefore
  <1>7. s.part = t.part
    <2>1. \A a, b : <<"parameters", a>> = <<"parameters", b>> => a = b
      OBVIOUS
    <2>2. <<"parameters", s.part>> = <<"parameters", t.part>>
      BY Zenon, <1>2, <1>3, <1>5
    <2> QED
      BY <2>1, <2>2, Zenon
  <1>8. i \in {9, 10, 11} /\ j \in {9, 10, 11}
    BY <1>4, StepFacts
  <1>9. i = j
    BY <1>7, <1>8, ConfigMapParts DEF s
  <1> QED
    BY ZenonT(60), <1>1, <1>6, <1>9, SameClaim

-------------------------------------------------------------------------------
\* The kinds a template may ever render.
KindsOf(t) == {InitialKinds[t]} \union (IF t \in Mutable THEN Recreated ELSE {})

\* A reference for anything but a cluster never leads to a template that renders a Cluster.
Reserved(refs) == \A f \in DOMAIN refs : f \in ClusterFields \/ "Cluster" \notin KindsOf(refs[f])

\* That holds of the references every claim starts with, and of every reference an edit can set.
ClusterTemplatesReserved ==
    /\ \A c \in Claims : Reserved(InitialRefs[c])
    /\ \A e \in Edits : e[2] \in ClusterFields \/ "Cluster" \notin KindsOf(e[3])

\* What there is at the key of a claim's cluster is the claim's.
OwnClusters ==
    \A c \in Claims, r \in Roles : Object(ClusterKey(c, r)) # NoObject => Object(ClusterKey(c, r)).owner = c

\* The references and templates keep to the reservation, and only steps for clusters made Clusters.
Kept ==
    /\ \A t \in Templates : tmpl[t] # NoTemplate => tmpl[t].kind \in KindsOf(t)
    /\ \A t \in Templates : ctmpl[t] # NoTemplate => ctmpl[t].kind \in KindsOf(t)
    /\ \A c \in Claims : Reserved(spec[c].refs) /\ Reserved(cspec[c].refs)
    /\ \A c \in Claims : pass[c] # NoPass => Reserved(pass[c].spec.refs)
    /\ \A k : Object(k) # NoObject /\ k.kind = "Cluster" => Object(k).step.kind = "Cluster"

\* Nobody else's object is at the key of a claim's cluster.
LEMMA KeptIsOwn == ASSUME TypeOK, AllApplied, Kept PROVE OwnClusters
  <1> SUFFICES ASSUME NEW c \in Claims, NEW r \in Roles, Object(ClusterKey(c, r)) # NoObject
               PROVE  Object(ClusterKey(c, r)).owner = c
    BY DEF OwnClusters
  <1> DEFINE k == ClusterKey(c, r)
             o == Object(k)
  <1>1. k.kind = "Cluster" /\ k.place = <<c.ns>> /\ k.name = c.name \o <<r>>
    BY DEF ClusterKey, ClusterName
  <1>2. k \in DOMAIN objects /\ o = objects[k]
    BY ObjectType
  <1> HIDE DEF k
  <1>3. o.step.kind = "Cluster"
    <2>1. \A j : Object(j) # NoObject /\ j.kind = "Cluster" => Object(j).step.kind = "Cluster"
      BY DEF Kept
    <2>2. Object(k) # NoObject
      BY DEF k
    <2> QED
      BY ZenonT(60), <1>1, <2>1, <2>2
  <1>4. Applied(k, o)
    BY <1>2 DEF AllApplied
  <1>5. PICK d \in Claims : (o.owner = IF o.step.kind = "ConfigMap" THEN Nobody ELSE d) /\ k = Key(d, o.step, k.kind)
    BY <1>4 DEF Applied
  <1>6. k.place = place(d, o.step) /\ k.name = resourceName(d, o.step)
    BY <1>5 DEF Key
  <1>7. place(d, o.step) = <<d.ns>> /\ resourceName(d, o.step) = d.name \o <<o.step.part>>
    BY <1>3 DEF place, resourceName, ClusterName
  <1>8. c \in ClaimKeys /\ d \in ClaimKeys /\ c.name \in Seq(STRING) /\ d.name \in Seq(STRING)
    BY FleetAssumption DEF ClaimKeys
  <1>9. c.ns = d.ns /\ c.name = d.name
    <2>1. <<c.ns>> = <<d.ns>> /\ c.name \o <<r>> = d.name \o <<o.step.part>>
      BY <1>1, <1>6, <1>7, Zenon
    <2>2. c.name = d.name
      BY <1>8, <2>1, OneMore, Zenon
    <2> QED
      BY <2>1, <2>2
  <1>10. c = d
    BY <1>8, <1>9, SameClaim
  <1> QED
    BY ZenonT(60), <1>3, <1>5, <1>10 DEF k

\* Every step leaves the objects alone, applies one for a claim, or changes or removes a cluster.
LEMMA ObjectSteps ==
    ASSUME Typed, [Next]_vars
    PROVE  \/ UNCHANGED objects
           \/ \E d \in Claims : \E t, k, o : Applies(d, t, k, o)
           \/ \E k \in ClusterKeys : \E o : /\ Object(k) # NoObject /\ Store(k, o)
                                        /\ \/ o = NoObject
                                           \/ o \in ObjectRecords /\ o.owner = Object(k).owner /\ o.step = Object(k).step
  <1> DEFINE Goal == \/ UNCHANGED objects
                     \/ \E d \in Claims : \E t, k, o : Applies(d, t, k, o)
                     \/ \E k \in ClusterKeys : \E o : /\ Object(k) # NoObject /\ Store(k, o)
                                                  /\ \/ o = NoObject
                                                     \/ /\ o \in ObjectRecords /\ o.owner = Object(k).owner
                                                        /\ o.step = Object(k).step
  <1>1. ASSUME NEW c \in Claims, ensureResource(c) PROVE Goal
    BY <1>1, EnsureCases, Zenon
  <1>2. ASSUME NEW k \in ClusterKeys, ClusterUp(k) \/ ClusterReports(k) \/ ClusterGone(k) PROVE Goal
    BY <1>2, ClusterCases, Zenon DEF Typed
  <1>3. ASSUME NEW c \in Claims, Begin(c) \/ CheckTemplateKind(c) \/ AwaitCluster(c) \/ Ready(c) \/ StepFails(c) \/ ApplyRejected(c)
                                 \/ SyncClaim(c) \/ TimerFires(c)
        PROVE  UNCHANGED objects
    BY <1>3, Zenon DEF Begin, CheckTemplateKind, AwaitCluster, Ready, StepFails, ApplyRejected, SyncClaim, TimerFires
  <1>4. ASSUME NEW t \in Mutable, UpdateTemplate(t) \/ DeleteTemplate(t) \/ CreateTemplate(t) \/ SyncTemplate(t)
        PROVE  UNCHANGED objects
    BY <1>4, Zenon DEF UpdateTemplate, DeleteTemplate, CreateTemplate, SyncTemplate, WriteTemplate
  <1>5. ASSUME NEW e \in Edits, EditClaim(e) PROVE UNCHANGED objects
    BY <1>5, Zenon DEF EditClaim
  <1>6. ASSUME NEW k \in ClusterKeys, ControlPlaneReports(k) PROVE UNCHANGED objects
    BY <1>6, Zenon DEF ControlPlaneReports
  <1> SUFFICES Goal
    OBVIOUS
  <1>7. CASE UNCHANGED vars
    BY <1>7 DEF vars
  <1>8. UNCHANGED objects => Goal
    BY ZenonT(60)
  <1> HIDE DEF Goal
  <1> QED
    BY <1>1, <1>2, <1>3, <1>4, <1>5, <1>6, <1>7, <1>8, ZenonT(60) DEF Next, Step

\* Only a step for a cluster makes a Cluster.
LEMMA ClusterMaker ==
    ASSUME Typed, Kept, NEW d \in Claims, NEW t, NEW k, NEW o, Applies(d, t, k, o), k.kind = "Cluster"
    PROVE  o.step.kind = "Cluster"
  <1> DEFINE s == Current(d)
             refs == pass[d].spec.refs
  <1>1. pass[d] # NoPass /\ pass[d].at \in 1..Last /\ t = Template(d) /\ t # NoTemplate
        /\ k = Key(d, s, t.kind) /\ o = buildDesiredResource(d, s, t, pass[d].ctx, Object(k))
    BY DEF Applies, At
  <1>2. s = renderSteps[pass[d].at]
    BY ZenonT(60) DEF Current
  <1>3. o.step = s
    BY ZenonT(60), <1>1 DEF buildDesiredResource
  <1>4. t.kind = "Cluster"
    BY <1>1 DEF Key
  <1>5. s.field \in DOMAIN refs /\ t = ctmpl[refs[s.field]]
    BY ZenonT(60), <1>1 DEF Template
  <1>6. refs[s.field] \in Templates
    <2>1. refs \in Refs
      BY <1>1 DEF Typed, TypeOK, PassesWith
    <2> QED
      BY ZenonT(60), <1>5, <2>1, RefsFacts
  <1>7. Reserved(refs) /\ t.kind \in KindsOf(refs[s.field])
    BY Zenon, <1>1, <1>5, <1>6 DEF Kept
  <1>8. s.field \in ClusterFields
    BY Zenon, <1>4, <1>5, <1>7 DEF Reserved
  <1>9. renderSteps[pass[d].at].field \in ClusterFields => renderSteps[pass[d].at].kind = "Cluster"
    BY ZenonT(60), <1>1, StepFacts
  <1> QED
    BY ZenonT(60), <1>2, <1>3, <1>8, <1>9

\* Setting a reference keeps the reservation if the new one does.
LEMMA ReservedPut ==
    ASSUME NEW refs, Reserved(refs), NEW f, NEW t, f \in ClusterFields \/ "Cluster" \notin KindsOf(t)
    PROVE  Reserved(Put(refs, f, t))
  BY DEF Reserved, Put

\* Every step keeps to the reservation.
LEMMA KeptKept == ASSUME ClusterTemplatesReserved, Typed, Kept, [Next]_vars PROVE Kept'
  <1> DEFINE KT == \A t \in Templates : tmpl'[t] # NoTemplate => tmpl'[t].kind \in KindsOf(t)
             KC == \A t \in Templates : ctmpl'[t] # NoTemplate => ctmpl'[t].kind \in KindsOf(t)
             KS == \A c \in Claims : Reserved(spec'[c].refs) /\ Reserved(cspec'[c].refs)
             KP == \A c \in Claims : pass'[c] # NoPass => Reserved(pass'[c].spec.refs)
             KO == \A k : Object(k)' # NoObject /\ k.kind = "Cluster" => Object(k)'.step.kind = "Cluster"
  <1> SUFFICES KT /\ KC /\ KS /\ KP /\ KO
    BY ZenonT(60) DEF Kept, Reserved
  <1>1. (UNCHANGED tmpl => KT) /\ (UNCHANGED ctmpl => KC)
    BY DEF Kept
  <1>2. UNCHANGED <<spec, cspec>> => KS
    BY DEF Kept
  <1>3. UNCHANGED pass => KP
    BY DEF Kept
  <1>4. KO
    <2>0. \A k : Object(k) # NoObject /\ k.kind = "Cluster" => Object(k).step.kind = "Cluster"
      BY DEF Kept
    <2>1. CASE UNCHANGED objects
      BY ZenonT(60), <2>0, <2>1 DEF Object
    <2>2. ASSUME NEW k, NEW o, Store(k, o), o = NoObject \/ o \in ObjectRecords,
                 o # NoObject /\ k.kind = "Cluster" => o.step.kind = "Cluster"
          PROVE  KO
      <3>1. Object(k)' = o /\ \A j : j # k => Object(j)' = Object(j)
        BY <2>2, StoreEffect DEF Typed
      <3> QED
        BY ZenonT(60), <2>0, <2>2, <3>1
    <2> HIDE DEF KO
    <2>3. ASSUME NEW d \in Claims, NEW t, NEW k, NEW o, Applies(d, t, k, o) PROVE KO
      <3>1. Store(k, o) /\ o \in ObjectRecords
        BY <2>3 DEF Applies
      <3>2. k.kind = "Cluster" => o.step.kind = "Cluster"
        BY ZenonT(60), <2>3, ClusterMaker
      <3> QED
        BY ZenonT(60), <2>2, <3>1, <3>2
    <2>4. ASSUME NEW k \in ClusterKeys, NEW o, Object(k) # NoObject, Store(k, o),
                 \/ o = NoObject
                 \/ o \in ObjectRecords /\ o.owner = Object(k).owner /\ o.step = Object(k).step
          PROVE  KO
      BY ZenonT(60), <2>0, <2>2, <2>4
    <2> QED
      BY ZenonT(60), <2>1, <2>3, <2>4, ObjectSteps
  <1> HIDE DEF KT, KC, KS, KP, KO
  <1>5. ASSUME NEW c \in Claims, Begin(c) PROVE KT /\ KC /\ KS /\ KP
    <2>1. pass'[c].spec = cspec[c] /\ UNCHANGED <<tmpl, ctmpl, spec, cspec>>
      BY ZenonT(60), <1>5, BeginTypes DEF Begin
    <2>2. \A d \in Claims \ {c} : pass'[d] = pass[d]
      BY <1>5 DEF Begin, Typed, TypeOK
    <2> QED
      BY ZenonT(60), <1>1, <1>2, <2>1, <2>2 DEF KP, Kept
  <1>6. ASSUME NEW c \in Claims,
               CheckTemplateKind(c) \/ ensureResource(c) \/ AwaitCluster(c) \/ Ready(c) \/ StepFails(c) \/ ApplyRejected(c)
        PROVE  KT /\ KC /\ KS /\ KP
    <2>1. PassMove(c) /\ pass[c] # NoPass
      BY ZenonT(60), <1>6, PassMoves DEF PassMove
    <2>2. UNCHANGED <<tmpl, ctmpl, spec, cspec>>
      BY ZenonT(60), <2>1, PassOthers DEF Around
    <2>3. \A d \in Claims \ {c} : pass'[d] = pass[d]
      BY ZenonT(60), <2>1, PassOthers
    <2>4. pass'[c] = NoPass \/ pass'[c].spec = pass[c].spec
      <3>1. Ends(c) => pass'[c] = NoPass
        BY EndEffect, Zenon DEF Ends
      <3> QED
        BY <2>1, <3>1, EndsOrGoes
    <2> QED
      BY ZenonT(60), <1>1, <1>2, <2>1, <2>2, <2>3, <2>4 DEF KP, Kept
  <1>7. ASSUME NEW c \in Claims, SyncClaim(c) \/ TimerFires(c) PROVE KT /\ KC /\ KS /\ KP
    <2>1. UNCHANGED <<tmpl, ctmpl, spec, pass>> /\ (cspec' = cspec \/ cspec' = [cspec EXCEPT ![c] = spec[c]])
      BY <1>7, ZenonT(60) DEF SyncClaim, TimerFires
    <2>2. KS
      BY ZenonT(60), <2>1 DEF KS, Kept, Typed, TypeOK
    <2> QED
      BY ZenonT(60), <1>1, <1>3, <2>1, <2>2
  <1>8. ASSUME NEW t \in Mutable, UpdateTemplate(t) \/ DeleteTemplate(t) \/ CreateTemplate(t) PROVE KT /\ KC /\ KS /\ KP
    <2>0. t \in Templates
      BY FleetAssumption
    <2>1. PICK new : WriteTemplate(t, new) /\ (new = NoTemplate \/ new.kind \in KindsOf(t))
      <3>1. CASE UpdateTemplate(t)
        <4>1. PICK ok \in BOOLEAN : WriteTemplate(t, [tmpl[t] EXCEPT !.ver = budget["template"], !.ok = ok])
          BY Zenon, <3>1 DEF UpdateTemplate
        <4>2. tmpl[t] \in Shapes /\ tmpl[t].kind \in KindsOf(t)
          BY <2>0, <3>1 DEF UpdateTemplate, Typed, TypeOK, Kept
        <4>3. [tmpl[t] EXCEPT !.ver = budget["template"], !.ok = ok].kind = tmpl[t].kind
          BY <4>2 DEF Shapes
        <4> QED
          BY Zenon, <4>1, <4>2, <4>3
      <3>2. CASE DeleteTemplate(t)
        BY <3>2 DEF DeleteTemplate
      <3>3. CASE CreateTemplate(t)
        <4>1. PICK k \in Recreated \union {InitialKinds[t]} :
                WriteTemplate(t, [kind |-> k, ver |-> budget["template"], ok |-> TRUE])
          BY Zenon, <3>3 DEF CreateTemplate
        <4>2. [kind |-> k, ver |-> budget["template"], ok |-> TRUE].kind \in KindsOf(t)
          BY DEF KindsOf
        <4> QED
          BY <4>1, <4>2
      <3> QED
        BY ZenonT(60), <1>8, <3>1, <3>2, <3>3
    <2>2. tmpl' = [tmpl EXCEPT ![t] = new] /\ UNCHANGED <<ctmpl, spec, cspec, pass>>
      BY <2>1, ZenonT(60) DEF WriteTemplate
    <2>3. KT
      BY ZenonT(60), <2>0, <2>1, <2>2 DEF KT, Kept, Typed, TypeOK
    <2> QED
      BY ZenonT(60), <1>1, <1>2, <1>3, <2>2, <2>3
  <1>9. ASSUME NEW t \in Mutable, SyncTemplate(t) PROVE KT /\ KC /\ KS /\ KP
    <2>1. ctmpl' = [ctmpl EXCEPT ![t] = tmpl[t]] /\ UNCHANGED <<tmpl, spec, cspec, pass>> /\ t \in Templates
      BY <1>9, FleetAssumption DEF SyncTemplate
    <2>2. KC
      BY Zenon, <2>1 DEF KC, Kept, Typed, TypeOK
    <2> QED
      BY ZenonT(60), <1>1, <1>2, <1>3, <2>1, <2>2
  <1>10. ASSUME NEW e \in Edits, EditClaim(e) PROVE KT /\ KC /\ KS /\ KP
    <2>1. /\ spec' = [spec EXCEPT ![e[1]] = [gen |-> spec[e[1]].gen + 1, refs |-> Put(spec[e[1]].refs, e[2], e[3])]]
          /\ UNCHANGED <<tmpl, ctmpl, cspec, pass>>
      BY <1>10 DEF EditClaim
    <2>2. e[1] \in Claims /\ (e[2] \in ClusterFields \/ "Cluster" \notin KindsOf(e[3]))
      BY ZenonT(60), FleetAssumption DEF ClusterTemplatesReserved
    <2>3. Reserved(Put(spec[e[1]].refs, e[2], e[3]))
      BY ZenonT(60), <2>2, ReservedPut DEF Kept
    <2>4. KS
      BY ZenonT(60), <2>1, <2>2, <2>3 DEF KS, Kept, Typed, TypeOK
    <2> QED
      BY ZenonT(60), <1>1, <1>3, <2>1, <2>4
  <1>11. ASSUME NEW k \in ClusterKeys, ClusterUp(k) \/ ClusterReports(k) \/ ClusterGone(k) \/ ControlPlaneReports(k)
         PROVE  KT /\ KC /\ KS /\ KP
    <2>1. UNCHANGED <<tmpl, ctmpl, spec, cspec, pass>>
      BY <1>11, Zenon DEF ClusterUp, ClusterReports, ClusterGone, ControlPlaneReports, OnCluster
    <2> QED
      BY ZenonT(60), <1>1, <1>2, <1>3, <2>1
  <1>12. CASE UNCHANGED vars
    BY ZenonT(60), <1>1, <1>2, <1>3, <1>4, <1>12 DEF vars
  <1> QED
    BY <1>4, <1>5, <1>6, <1>7, <1>8, <1>9, <1>10, <1>11, <1>12, ZenonT(60) DEF Next, Step

\* The first state keeps to the reservation.
LEMMA KeptStarts == ASSUME ClusterTemplatesReserved, Init PROVE Kept
  <1>1. \A t \in Templates : tmpl[t].kind \in KindsOf(t) /\ ctmpl[t].kind \in KindsOf(t)
    BY Zenon DEF Init, InitialTemplate, KindsOf
  <1>2. \A c \in Claims : spec[c].refs = InitialRefs[c] /\ cspec[c].refs = InitialRefs[c] /\ pass[c] = NoPass
    BY Zenon DEF Init
  <1>3. ASSUME NEW k, Object(k) # NoObject, k.kind = "Cluster" PROVE Object(k).step.kind = "Cluster"
    <2>1. k \in DOMAIN InitialObjects /\ Object(k) = InitialObjects[k]
      BY Zenon, <1>3 DEF Object, Init
    <2> DEFINE Made == {e \in Provisioned \X {renderSteps[i] : i \in 1..Last} :
                          ~Skipped(e[1], InitialRefs[e[1]], e[2]) /\ e[2].part # "update"}
               By == CHOOSE e \in Made : Key(e[1], e[2], e[2].kind) = k
               t == InitialTemplate(InitialRefs[By[1]][By[2].field])
               x == BuildContext(InitialClusters(By[1]))
               o == buildDesiredResource(By[1], By[2], t, x, NoObject)
    <2>2. k \in {Key(e[1], e[2], e[2].kind) : e \in Made}
          /\ InitialObjects[k] = [o EXCEPT !.status = InitialStatus(By[1])]
      BY <2>1, Zenon DEF InitialObjects
    <2>3. By \in Made /\ Key(By[1], By[2], By[2].kind) = k
      BY <2>2, ZenonT(60)
    <2> HIDE DEF By, t, x
    <2>4. By[2].kind = "Cluster"
      BY <1>3, <2>3 DEF Key
    <2>5. InitialObjects[k].step = By[2]
      BY <2>2 DEF buildDesiredResource
    <2> QED
      BY ZenonT(60), <2>1, <2>4, <2>5
  <1> QED
    BY Zenon, <1>1, <1>2, <1>3 DEF Kept, ClusterTemplatesReserved

\* A claim's clusters are its own as long as the reservation is kept.
LEMMA ClustersAreOwn == ASSUME ClusterTemplatesReserved PROVE Spec => []OwnClusters
  <1>1. Init => Kept
    BY KeptStarts
  <1>2. Typed /\ Kept /\ [Next]_vars => Kept'
    BY KeptKept
  <1>3. AllApplied /\ [Next]_vars => AllApplied'
    <2> SUFFICES ASSUME AllApplied, [Next]_vars PROVE AllApplied'
      OBVIOUS
    <2>1. CASE objects' = objects
      BY <2>1 DEF AllApplied
    <2>2. ASSUME NEW k, NEW o, Store(k, o), o = NoObject \/ Applied(k, o) PROVE AllApplied'
      BY <2>2, StoreKeeps
    <2> QED
      BY <2>1, <2>2, Steps
  <1>4. Typed /\ AllApplied /\ Kept => OwnClusters
    BY KeptIsOwn DEF Typed
  <1> QED
    BY <1>1, <1>2, <1>3, <1>4, Starts, Types, PTL DEF Spec

\* What is stored elsewhere without queueing a claim does not touch what the claim has.
LEMMA ElsewhereKeeps ==
    ASSUME Typed, OwnClusters, OwnClusters', NEW c \in Claims, c \notin queued', Elsewhere(c)
    PROVE  /\ \A k : Object(k) # NoObject /\ Object(k).owner = c => Object(k)' = Object(k)
           /\ \A i \in 1..Last : \A x : renderSteps[i].kind = "ConfigMap" =>
                Object(Key(c, renderSteps[i], x))' = Object(Key(c, renderSteps[i], x))
           /\ \A k : k.kind # "Cluster" /\ Object(k) # NoObject => Object(k)' # NoObject
           /\ \A r \in Roles : Object(ClusterKey(c, r))' = Object(ClusterKey(c, r))
  <1> DEFINE S1 == \A k : Object(k) # NoObject /\ Object(k).owner = c => Object(k)' = Object(k)
             S2 == \A i \in 1..Last : \A x : renderSteps[i].kind = "ConfigMap" =>
                     Object(Key(c, renderSteps[i], x))' = Object(Key(c, renderSteps[i], x))
             S3 == \A k : k.kind # "Cluster" /\ Object(k) # NoObject => Object(k)' # NoObject
             S4 == \A r \in Roles : Object(ClusterKey(c, r))' = Object(ClusterKey(c, r))
  <1> SUFFICES S1 /\ S2 /\ S3 /\ S4
    OBVIOUS
  <1>0. c # Nobody
    BY ZenonT(60), MarkersAssumption
  <1>1. CASE UNCHANGED objects
    BY <1>1 DEF Object
  <1>2. ASSUME NEW k, NEW o, Store(k, o), o = NoObject \/ o \in ObjectRecords PROVE S1
    <2>1. /\ Object(k)' = o /\ \A j : j # k => Object(j)' = Object(j)
          /\ o # Object(k) => OwnerOf(o) \union OwnerOf(Object(k)) \subseteq queued'
      BY <1>2, StoreEffect DEF Typed
    <2>2. Object(k) # NoObject /\ Object(k).owner = c => c \in OwnerOf(Object(k))
      BY <1>0 DEF OwnerOf
    <2> QED
      BY ZenonT(60), <2>1, <2>2
  <1>3. ASSUME S1, \A r \in Roles : Object(ClusterKey(c, r)) = NoObject => Object(ClusterKey(c, r))' = NoObject PROVE S4
    BY ZenonT(60), <1>3 DEF OwnClusters
  <1>4. ASSUME NEW d \in Claims \ {c}, NEW t, NEW k, NEW o, Applies(d, t, k, o) PROVE S1 /\ S2 /\ S3 /\ S4
    <2>1. /\ Store(k, o) /\ o \in ObjectRecords /\ o # NoObject /\ pass[d].at \in 1..Last
          /\ k = Key(d, renderSteps[pass[d].at], t.kind)
          /\ o = buildDesiredResource(d, renderSteps[pass[d].at], t, pass[d].ctx, Object(k))
      BY Zenon, <1>4 DEF Applies, Current
    <2>2. o.owner # c
      BY Zenon, <1>0, <1>4, <2>1 DEF buildDesiredResource
    <2>3. Object(k)' = o /\ \A j : j # k => Object(j)' = Object(j)
      BY Zenon, <2>1, StoreEffect DEF Typed
    <2>4. S1
      BY ZenonT(60), <1>2, <2>1
    <2>5. S2
      <3> SUFFICES ASSUME NEW i \in 1..Last, NEW x, renderSteps[i].kind = "ConfigMap"
                   PROVE  Object(Key(c, renderSteps[i], x))' = Object(Key(c, renderSteps[i], x))
        OBVIOUS
      <3>1. Key(c, renderSteps[i], x) # k
        <4>1. PICK j, y : j \in 1..Last /\ k = Key(d, renderSteps[j], y)
          BY Zenon, <2>1
        <4>2. d \in Claims /\ d # c
          OBVIOUS
        <4> QED
          BY Zenon, <4>1, <4>2, ConfigMapIsOwn
      <3> QED
        BY ZenonT(60), <2>3, <3>1
    <2>6. S3
      BY ZenonT(60), <2>1, <2>3
    <2>7. ASSUME NEW r \in Roles, Object(ClusterKey(c, r)) = NoObject PROVE Object(ClusterKey(c, r))' = NoObject
      <3>1. CASE ClusterKey(c, r) = k
        <4>1. Object(ClusterKey(c, r))' # NoObject => Object(ClusterKey(c, r))'.owner = c
          BY DEF OwnClusters
        <4> QED
          BY ZenonT(60), <2>1, <2>2, <2>3, <3>1, <4>1
      <3>2. CASE ClusterKey(c, r) # k
        BY <2>3, <2>7, <3>2
      <3> QED
        BY <3>1, <3>2
    <2> HIDE DEF S1
    <2> QED
      BY ZenonT(60), <1>3, <2>4, <2>5, <2>6, <2>7
  <1>5. ASSUME NEW k \in ClusterKeys, NEW o, Object(k) # NoObject, Store(k, o), o = NoObject \/ o \in ObjectRecords
        PROVE  S1 /\ S2 /\ S3 /\ S4
    <2>1. k.kind = "Cluster"
      BY DEF ClusterKeys, ClusterKey
    <2>2. Object(k)' = o /\ \A j : j # k => Object(j)' = Object(j)
      BY ZenonT(60), <1>5, StoreEffect DEF Typed
    <2>3. S1
      BY ZenonT(60), <1>2, <1>5
    <2>4. S2
      <3> SUFFICES ASSUME NEW i \in 1..Last, NEW x, renderSteps[i].kind = "ConfigMap"
                   PROVE  Object(Key(c, renderSteps[i], x))' = Object(Key(c, renderSteps[i], x))
        BY ZenonT(60)
      <3>1. Key(c, renderSteps[i], x).kind = "ConfigMap"
        BY DEF Key
      <3> QED
        BY ZenonT(60), <2>1, <2>2, <3>1
    <2>5. S3
      BY <2>1, <2>2
    <2>6. ASSUME NEW r \in Roles, Object(ClusterKey(c, r)) = NoObject PROVE Object(ClusterKey(c, r))' = NoObject
      BY ZenonT(60), <1>5, <2>2, <2>6
    <2> HIDE DEF S1
    <2> QED
      BY ZenonT(60), <1>3, <2>3, <2>4, <2>5, <2>6
  <1> HIDE DEF S1, S2, S3, S4
  <1> QED
    BY ZenonT(60), <1>1, <1>4, <1>5 DEF Elsewhere

\* A claim's view of its clusters depends on what is at their keys.
LEMMA SameClusters ==
    ASSUME Typed, Typed', NEW c \in Claims, \A r \in Roles : Object(ClusterKey(c, r))' = Object(ClusterKey(c, r))
    PROVE  Clusters(c)' = Clusters(c) /\ BuildContext(Clusters(c))' = BuildContext(Clusters(c))
  <1>1. ASSUME NEW r \in Roles
        PROVE  /\ ClusterKey(c, r) \in DOMAIN objects' <=> ClusterKey(c, r) \in DOMAIN objects
               /\ ClusterKey(c, r) \in DOMAIN objects => objects'[ClusterKey(c, r)] = objects[ClusterKey(c, r)]
    <2> DEFINE k == ClusterKey(c, r)
    <2>1. /\ Object(k) = NoObject <=> k \notin DOMAIN objects
          /\ Object(k) # NoObject => objects[k] = Object(k)
      BY ObjectType DEF Typed
    <2>2. /\ Object(k)' = NoObject <=> k \notin DOMAIN objects'
          /\ Object(k)' # NoObject => objects'[k] = Object(k)'
      <3>1. k \in DOMAIN objects' => objects'[k] \in ObjectRecords
        BY Zenon DEF Typed, TypeOK
      <3> HIDE DEF k
      <3> QED
        BY Zenon, <3>1, MarkersAssumption DEF Object
    <2> HIDE DEF k
    <2>3. Object(k)' = Object(k)
      BY DEF k
    <2> QED
      BY ZenonT(60), <2>1, <2>2, <2>3 DEF k
  <1>2. Clusters(c)' = Clusters(c)
    BY Zenon, <1>1 DEF Clusters
  <1> QED
    BY <1>2 DEF BuildContext

-------------------------------------------------------------------------------
\* Object o is what a step of the kind asks for from template t.
AskedFor(c, s, t, ctx, o) ==
    /\ o # NoObject /\ o.owner = (IF s.kind = "ConfigMap" THEN Nobody ELSE c)
    /\ o.labels = MergeLabels(TemplateLabels, StandardLabels(c)) /\ o.ver = t.ver /\ o.ctx = ctx

\* Step i is skipped, or left what the template asks for and the object of the expected kind is there.
Done(c, refs, ctx, i) ==
    \/ Skipped(c, refs, renderSteps[i])
    \/ \E t : /\ t = Cached(refs, renderSteps[i]) /\ t # NoTemplate
              /\ AskedFor(c, renderSteps[i], t, ctx, Object(Key(c, renderSteps[i], t.kind)))
              /\ Object(Key(c, renderSteps[i], renderSteps[i].kind)) # NoObject

\* The steps a pass is through with.
Through(c) == IF pass[c].sub = "await" THEN pass[c].at ELSE pass[c].at - 1

\* The mirror has the replica count of every cluster that is there.
Shown(c, m) == \A r \in Roles : Clusters(c)[r] # NoCluster => m[r].there /\ m[r].count = toInt32(Clusters(c)[r].replicas)

\* A claim that is not queued is up to date as far as its pass, or its last pass, got.
Running(c) ==
    /\ pass[c].ctx = BuildContext(Clusters(c)) /\ Shown(c, pass[c].mirror)
    /\ \A i \in 1..Last : i <= Through(c) => Done(c, cspec[c].refs, BuildContext(Clusters(c)), i)

Resting(c) ==
    /\ \A i \in 1..Last : i <= outcome[c].through => Done(c, cspec[c].refs, BuildContext(Clusters(c)), i)
    /\ ~outcome[c].lost => /\ Shown(c, status[c].mirror) /\ (c \in timer \/ status[c].phase = "Failed")
                           /\ status[c].phase = "Ready" => outcome[c].through = Last

Sound(c) == c \notin queued => IF pass[c] = NoPass THEN Resting(c) ELSE Running(c)

\* What a claim has stays done while nothing queues it.
LEMMA DoneKept ==
    ASSUME Typed, OwnClusters, OwnClusters', NEW c \in Claims, c \notin queued', Unnoticed(c),
           NEW refs, refs = cspec[c].refs, NEW ctx, NEW i \in 1..Last, Done(c, refs, ctx, i)
    PROVE  Done(c, refs, ctx, i)'
  <1>1. CASE Skipped(c, refs, renderSteps[i])
    BY Zenon, <1>1 DEF Done
  <1>2. CASE ~Skipped(c, refs, renderSteps[i])
    <2> DEFINE s == renderSteps[i]
    <2>1. PICK t : /\ t = Cached(refs, s) /\ t # NoTemplate
                   /\ AskedFor(c, s, t, ctx, Object(Key(c, s, t.kind)))
                   /\ Object(Key(c, s, s.kind)) # NoObject
      BY <1>2, Zenon DEF Done
    <2>2. t = Cached(refs, s)'
      <3>1. s.field \in DOMAIN refs /\ t = ctmpl[refs[s.field]]
        BY Zenon, <2>1 DEF Cached
      <3>2. ctmpl'[refs[s.field]] = ctmpl[refs[s.field]]
        BY Zenon, <3>1 DEF Unnoticed
      <3> QED
        BY Zenon, <3>1, <3>2 DEF Cached
    <2>3. /\ \A k : Object(k) # NoObject /\ Object(k).owner = c => Object(k)' = Object(k)
          /\ \A x : s.kind = "ConfigMap" => Object(Key(c, s, x))' = Object(Key(c, s, x))
          /\ \A k : k.kind # "Cluster" /\ Object(k) # NoObject => Object(k)' # NoObject
          /\ \A r \in Roles : Object(ClusterKey(c, r))' = Object(ClusterKey(c, r))
      BY ElsewhereKeeps, Zenon DEF Unnoticed
    <2>4. PICK k : k = Key(c, s, t.kind)
      OBVIOUS
    <2>5. PICK j : j = Key(c, s, s.kind)
      BY ZenonT(60)
    <2>6. Object(k)' = Object(k)
      <3>1. CASE s.kind = "ConfigMap"
        BY ZenonT(60), <2>3, <2>4, <3>1
      <3>2. CASE s.kind # "ConfigMap"
        <4>1. Object(k) # NoObject /\ Object(k).owner = c
          BY ZenonT(60), <2>1, <2>4, <3>2 DEF AskedFor
        <4> QED
          BY Zenon, <2>3, <4>1
      <3> QED
        BY <3>1, <3>2
    <2>7. Object(j)' # NoObject
      <3>1. CASE s.kind = "Cluster"
        <4>1. s.part \in Roles
          BY ZenonT(60), <3>1, StepFacts
        <4>2. j = ClusterKey(c, s.part)
          BY ZenonT(60), <2>5, <3>1 DEF Key, ClusterKey, place, resourceName
        <4> QED
          BY ZenonT(60), <2>1, <2>3, <2>5, <4>1, <4>2
      <3>2. CASE s.kind # "Cluster"
        <4>1. j.kind # "Cluster"
          BY ZenonT(60), <2>5, <3>2 DEF Key
        <4> QED
          BY ZenonT(60), <2>1, <2>3, <2>5, <4>1
      <3> QED
        BY <3>1, <3>2
    <2>8. AskedFor(c, s, t, ctx, Object(k)')
      BY ZenonT(60), <2>1, <2>4, <2>6
    <2> QED
      BY ZenonT(60), <2>1, <2>2, <2>4, <2>5, <2>7, <2>8 DEF Done, Object, AskedFor, Cached
  <1> QED
    BY <1>1, <1>2

\* Nothing happens to a claim.
LEMMA SoundUnnoticed ==
    ASSUME Typed, Typed', Behind, OwnClusters, OwnClusters', NEW c \in Claims, c \notin queued', Unnoticed(c), Sound(c)
    PROVE  Sound(c)'
  <1>1. /\ c \notin queued /\ pass'[c] = pass[c] /\ status'[c] = status[c] /\ outcome'[c] = outcome[c]
        /\ cspec'[c] = cspec[c] /\ (c \in timer => c \in timer')
    BY DEF Unnoticed
  <1>2. \A r \in Roles : Object(ClusterKey(c, r))' = Object(ClusterKey(c, r))
    BY Zenon, ElsewhereKeeps DEF Unnoticed
  <1>3. Clusters(c)' = Clusters(c) /\ BuildContext(Clusters(c))' = BuildContext(Clusters(c))
    BY <1>2, SameClusters
  <1>4. PICK refs, x : refs = cspec[c].refs /\ x = BuildContext(Clusters(c))
    OBVIOUS
  <1>5. refs = cspec'[c].refs /\ x = BuildContext(Clusters(c))'
    BY ZenonT(60), <1>1, <1>3, <1>4
  <1>6. \A i \in 1..Last : Done(c, refs, x, i) => Done(c, refs, x, i)'
    BY <1>4, DoneKept
  <1>7. \A m : Shown(c, m) => Shown(c, m)'
    BY Zenon, <1>3 DEF Shown
  <1>8. Through(c)' = Through(c)
    BY <1>1 DEF Through
  <1>9. CASE pass[c] # NoPass
    <2>1. pass[c].ctx = x /\ Shown(c, pass[c].mirror) /\ \A i \in 1..Last : i <= Through(c) => Done(c, refs, x, i)
      BY ZenonT(60), <1>1, <1>4, <1>9 DEF Sound, Running
    <2>2. \A i \in 1..Last : i <= Through(c)' => Done(c, refs, x, i)'
      BY ZenonT(60), <1>6, <1>8, <2>1
    <2>3. pass'[c].ctx = x /\ Shown(c, pass[c].mirror)'
      <3>1. PICK m : m = pass[c].mirror
        OBVIOUS
      <3>2. Shown(c, m)'
        BY ZenonT(60), <1>7, <2>1, <3>1
      <3> QED
        BY ZenonT(60), <1>1, <2>1, <3>1, <3>2 DEF Shown
    <2>4. Running(c)'
      BY ZenonT(60), <1>5, <2>2, <2>3 DEF Running
    <2> QED
      BY Zenon, <1>1, <1>9, <2>4 DEF Sound
  <1>10. CASE pass[c] = NoPass
    <2>1. \A i \in 1..Last : i <= outcome[c].through => Done(c, refs, x, i)
      BY Zenon, <1>1, <1>4, <1>10 DEF Sound, Resting
    <2>2. \A i \in 1..Last : i <= outcome'[c].through => Done(c, refs, x, i)'
      BY Zenon, <1>1, <1>6, <2>1
    <2>3. ASSUME ~outcome'[c].lost
          PROVE  Shown(c, status[c].mirror)' /\ (c \in timer' \/ status'[c].phase = "Failed")
                 /\ (status'[c].phase = "Ready" => outcome'[c].through = Last)
      <3>1. ~outcome[c].lost
        BY Zenon, <1>1, <2>3
      <3>2. Shown(c, status[c].mirror) /\ (c \in timer \/ status[c].phase = "Failed")
            /\ (status[c].phase = "Ready" => outcome[c].through = Last)
        BY ZenonT(60), <1>1, <1>10, <3>1 DEF Sound, Resting
      <3>3. PICK m : m = status[c].mirror
        OBVIOUS
      <3>4. Shown(c, m)'
        BY ZenonT(60), <1>7, <3>2, <3>3
      <3> QED
        BY ZenonT(60), <1>1, <3>2, <3>3, <3>4 DEF Shown
    <2>4. Resting(c)'
      BY ZenonT(60), <1>5, <2>2, <2>3 DEF Resting
    <2> QED
      BY Zenon, <1>1, <1>10, <2>4 DEF Sound
  <1> QED
    BY ZenonT(60), <1>9, <1>10

\* The summary that the prefetch makes shows every cluster it found.
LEMMA SyncShows ==
    ASSUME NEW c, NEW old, NEW v PROVE Shown(c, syncClusterStatuses(old, Clusters(c), v))
  BY DEF Shown, syncClusterStatuses, extractClusterStatusSummary

\* A pass begins with what the caches show.
LEMMA SoundBegin == ASSUME Typed, NEW c \in Claims, Begin(c) PROVE Sound(c)'
  <1>1. /\ pass'[c] # NoPass /\ pass'[c].at = NextRender(c, cspec[c].refs, 0) /\ pass'[c].sub # "await"
        /\ pass'[c].spec = cspec[c] /\ pass'[c].ctx = BuildContext(Clusters(c))
        /\ pass'[c].mirror = syncClusterStatuses(status[c].mirror, Clusters(c), [r \in Roles |-> version[ClusterKey(c, r)]])
    BY Zenon, BeginTypes
  <1>2. UNCHANGED <<cspec, objects, ctmpl>>
    BY ZenonT(60) DEF Begin
  <1>3. Clusters(c)' = Clusters(c) /\ BuildContext(Clusters(c))' = BuildContext(Clusters(c))
    BY <1>2 DEF Clusters, BuildContext
  <1>4. PICK m : m = pass'[c].mirror
    OBVIOUS
  <1>5. Shown(c, m)
    BY ZenonT(60), <1>1, <1>4, SyncShows
  <1>6. Shown(c, pass[c].mirror)'
    BY ZenonT(60), <1>3, <1>4, <1>5 DEF Shown
  <1>7. ASSUME NEW i \in 1..Last, i <= Through(c)' PROVE Skipped(c, cspec'[c].refs, renderSteps[i])
    <2>1. Through(c)' = NextRender(c, cspec[c].refs, 0) - 1
      BY Zenon, <1>1 DEF Through
    <2>2. 0 \in 0..Last
      BY LastIs
    <2>3. /\ NextRender(c, cspec[c].refs, 0) \in (0 + 1)..(Last + 1)
          /\ \A k \in (0 + 1)..(NextRender(c, cspec[c].refs, 0) - 1) : Skipped(c, cspec[c].refs, renderSteps[k])
      BY ZenonT(60), <2>2, NextRenderIs
    <2>4. i \in (0 + 1)..(NextRender(c, cspec[c].refs, 0) - 1)
      BY <1>7, <2>1, <2>3, LastIs
    <2> QED
      BY ZenonT(60), <1>2, <2>3, <2>4
  <1>8. Running(c)'
    BY ZenonT(60), <1>1, <1>3, <1>6, <1>7 DEF Running, Done
  <1> QED
    BY Zenon, <1>1, <1>8 DEF Sound

\* The context of a pass that is up to date is not changed by the refresh after a wait.
LEMMA RefreshIsIdle ==
    ASSUME Typed, NEW c \in Claims, pass[c] # NoPass, pass[c].ctx = BuildContext(Clusters(c)), NEW r \in Roles,
           Clusters(c)[r] # NoCluster
    PROVE  [pass[c].ctx EXCEPT ![r] = populateClusterFields(Clusters(c)[r])] = pass[c].ctx
  BY DEF BuildContext

\* Steps that are skipped lie between one step and the next.
LEMMA SkippedBetween ==
    ASSUME NEW c, NEW refs, NEW i \in 1..Last, NEW j \in 1..Last, i < j, j <= NextRender(c, refs, i) - 1
    PROVE  Skipped(c, refs, renderSteps[j])
  <1>1. i \in 0..Last
    BY LastIs
  <1>2. NextRender(c, refs, i) \in (i + 1)..(Last + 1)
        /\ \A k \in (i + 1)..(NextRender(c, refs, i) - 1) : Skipped(c, refs, renderSteps[k])
    BY ZenonT(60), <1>1, NextRenderIs
  <1>3. j \in (i + 1)..(NextRender(c, refs, i) - 1)
    BY <1>2, LastIs
  <1> QED
    BY ZenonT(60), <1>2, <1>3

\* Applying an object without being queued by it changes nothing, or a ConfigMap that no other step has.
LEMMA ApplyEffect ==
    ASSUME Typed, NEW c \in Claims, NEW t, NEW k, NEW o, Applies(c, t, k, o), c \notin queued'
    PROVE  /\ Object(k)' = o
           /\ Current(c).kind # "ConfigMap" => \A j : Object(j)' = Object(j)
           /\ \A i \in 1..Last : i # pass[c].at => \A x : Object(Key(c, renderSteps[i], x))' = Object(Key(c, renderSteps[i], x))
           /\ \A r \in Roles : Object(ClusterKey(c, r))' = Object(ClusterKey(c, r))
  <1>1. PICK n \in 1..Last : n = pass[c].at
    BY Zenon DEF Applies
  <1>2. /\ Store(k, o) /\ o \in ObjectRecords /\ o # NoObject
        /\ k = Key(c, renderSteps[n], t.kind)
        /\ o = buildDesiredResource(c, renderSteps[n], t, pass[c].ctx, Object(k))
    BY ZenonT(60), <1>1 DEF Applies, Current
  <1>3. /\ Object(k)' = o /\ \A j : j # k => Object(j)' = Object(j)
        /\ o # Object(k) => OwnerOf(o) \union OwnerOf(Object(k)) \subseteq queued'
    BY <1>2, StoreEffect DEF Typed
  <1>4. CASE renderSteps[n].kind # "ConfigMap"
    <2>1. o.owner = c
      BY Zenon, <1>2, <1>4 DEF buildDesiredResource
    <2>2. c \in OwnerOf(o)
      BY ZenonT(60), <1>2, <2>1, MarkersAssumption DEF OwnerOf
    <2>3. o = Object(k)
      BY ZenonT(60), <1>3, <2>2
    <2>4. \A j : Object(j)' = Object(j)
      BY ZenonT(60), <1>3, <2>3
    <2> QED
      BY Zenon, <1>3, <2>4
  <1>5. CASE renderSteps[n].kind = "ConfigMap"
    <2>1. ASSUME NEW i \in 1..Last, i # n, NEW x PROVE Key(c, renderSteps[i], x) # k
      BY ZenonT(60), <1>2, <1>5, <2>1, ConfigMapIsOwn
    <2>2. ASSUME NEW r \in Roles PROVE ClusterKey(c, r) # k
      <3>1. k.kind = "ConfigMap" /\ ClusterKey(c, r).kind = "Cluster"
        BY ZenonT(60), <1>2, <1>5 DEF Key, ClusterKey
      <3> QED
        BY <3>1
    <2> QED
      BY ZenonT(60), <1>1, <1>3, <1>5, <2>1, <2>2 DEF Current
  <1> QED
    BY ZenonT(60), <1>4, <1>5

\* A step whose objects stay is done as before.
LEMMA DoneSame ==
    ASSUME NEW c \in Claims, NEW refs, NEW ctx, NEW i \in 1..Last, UNCHANGED ctmpl, Done(c, refs, ctx, i),
           \A x : Object(Key(c, renderSteps[i], x))' = Object(Key(c, renderSteps[i], x))
    PROVE  Done(c, refs, ctx, i)'
  <1> DEFINE s == renderSteps[i]
  <1>1. CASE Skipped(c, refs, s)
    BY Zenon, <1>1 DEF Done
  <1>2. CASE ~Skipped(c, refs, s)
    <2>1. PICK t : /\ t = Cached(refs, s) /\ t # NoTemplate
                   /\ AskedFor(c, s, t, ctx, Object(Key(c, s, t.kind)))
                   /\ Object(Key(c, s, s.kind)) # NoObject
      BY <1>2, Zenon DEF Done
    <2>2. t = Cached(refs, s)'
      BY ZenonT(60), <2>1 DEF Cached
    <2>3. PICK k, j : k = Key(c, s, t.kind) /\ j = Key(c, s, s.kind)
      BY ZenonT(60)
    <2>4. Object(k)' = Object(k) /\ Object(j)' = Object(j)
      BY <2>3
    <2>5. AskedFor(c, s, t, ctx, Object(k)') /\ Object(j)' # NoObject
      BY ZenonT(60), <2>1, <2>3, <2>4
    <2> QED
      BY ZenonT(60), <2>1, <2>2, <2>3, <2>5 DEF Done, Object, AskedFor, Cached
  <1> QED
    BY <1>1, <1>2

\* The last step addresses the object of the eighth, which no claim skips.
LEMMA UpdatesEighth ==
    ASSUME NEW c, NEW refs, NEW s, s.kind = "CcmCsrc"
    PROVE  ~Skipped(c, refs, renderSteps[8]) /\ Key(c, s, s.kind) = Key(c, renderSteps[8], renderSteps[8].kind)
  <1>1. renderSteps[8].kind = "CcmCsrc" /\ renderSteps[8].field = "ccmCsr" /\ renderSteps[8].part # "update"
    BY UpdateOf
  <1>2. "ccmCsr" \notin ClientFields /\ "ccmCsr" \notin VaultFamily
    BY DEF ClientFields, VaultFamily
  <1>3. ~Skipped(c, refs, renderSteps[8])
    BY ZenonT(60), <1>1, <1>2 DEF Skipped
  <1>4. Key(c, s, s.kind) = Key(c, renderSteps[8], renderSteps[8].kind)
    BY <1>1 DEF Key, place, resourceName
  <1> QED
    BY ZenonT(60), <1>3, <1>4

\* A step that applied its object and has its finalizer in place is done.
LEMMA ApplyDone ==
    ASSUME Typed, NEW c \in Claims, NEW t, NEW k, NEW o, Applies(c, t, k, o), c \notin queued', UNCHANGED ctmpl,
           ensureResourceFinalizer(c, k), NEW refs, refs = pass[c].spec.refs, NEW ctx, ctx = pass[c].ctx,
           NEW n \in 1..Last, n = pass[c].at, \A i \in 1..Last : i < n => Done(c, refs, ctx, i)
    PROVE  Done(c, refs, ctx, n)'
  <1> DEFINE s == renderSteps[n]
  <1>1. /\ t # NoTemplate /\ k = Key(c, s, t.kind) /\ o = buildDesiredResource(c, s, t, ctx, Object(k))
        /\ t = Template(c) /\ o # NoObject /\ Current(c) = s
    BY Zenon DEF Applies, Current
  <1>2. t = Cached(refs, s)'
    BY Zenon, <1>1 DEF Template, Cached, Current
  <1>3. /\ Object(k)' = o
        /\ s.kind # "ConfigMap" => \A j : Object(j)' = Object(j)
    BY Zenon, <1>1, ApplyEffect
  <1>4. AskedFor(c, s, t, ctx, o)
    BY Zenon, <1>1 DEF AskedFor, buildDesiredResource
  <1>5. PICK j : j = Key(c, s, s.kind)
    BY ZenonT(60)
  <1>6. Object(j)' # NoObject
    <2>1. CASE s.kind = "ConfigMap"
      <3>1. j = k
        BY ZenonT(60), <1>1, <1>5, <2>1 DEF Key
      <3> QED
        BY ZenonT(60), <1>1, <1>3, <3>1
    <2>2. CASE s.kind # "ConfigMap" /\ s.part = "update"
      <3>1. n = 13 /\ s.kind = "CcmCsrc"
        BY ZenonT(60), <2>2, StepFacts
      <3>2. 8 \in 1..Last /\ 8 < n
        BY <3>1, LastIs
      <3>3. ~Skipped(c, refs, renderSteps[8]) /\ j = Key(c, renderSteps[8], renderSteps[8].kind)
        BY ZenonT(60), <1>5, <3>1, UpdatesEighth
      <3>4. Done(c, refs, ctx, 8)
        BY <3>2
      <3>5. Object(j) # NoObject
        BY Zenon, <3>3, <3>4 DEF Done
      <3> QED
        BY ZenonT(60), <1>3, <2>2, <3>5
    <2>3. CASE s.kind # "ConfigMap" /\ s.part # "update"
      <3>1. k = j \/ j \in DOMAIN objects
        BY ZenonT(60), <1>1, <1>5, <2>3 DEF ensureResourceFinalizer
      <3>2. j \in DOMAIN objects => Object(j) # NoObject
        BY ObjectType DEF Typed
      <3> QED
        BY ZenonT(60), <1>1, <1>3, <2>3, <3>1, <3>2
    <2> QED
      BY ZenonT(60), <2>1, <2>2, <2>3
  <1>7. AskedFor(c, s, t, ctx, Object(k)')
    BY Zenon, <1>3, <1>4
  <1> QED
    BY ZenonT(60), <1>1, <1>2, <1>5, <1>6, <1>7 DEF Done, Object, AskedFor, Cached

-------------------------------------------------------------------------------
\* The steps before step n.
LEMMA UpTo ==
    \A i \in 1..Last : \A n \in 1..(Last + 1) :
      (i < n <=> i <= n - 1) /\ (i <= n <=> i < n \/ i = n) /\ (n > Last => n - 1 = Last) /\ i <= Last
  BY LastIs

\* Where a pass goes, with what it keeps.
LEMMA GoesTo ==
    ASSUME Typed, NEW c \in Claims, pass[c] # NoPass, NEW i, NEW sub, NEW y, y \in Contexts, Goto(c, i, sub, y),
           \/ i = pass[c].at /\ i \in 1..Last /\ sub = "apply"
           \/ i = pass[c].at /\ i \in 1..Last /\ sub = "await" /\ Current(c).kind = "Cluster"
           \/ pass[c].at \in 1..Last /\ i = NextRender(c, pass[c].spec.refs, pass[c].at) /\ sub = FirstCall(i)
    PROVE  /\ pass'[c] # NoPass /\ pass'[c].at = i /\ pass'[c].sub = sub /\ pass'[c].ctx = y
           /\ pass'[c].mirror = pass[c].mirror
  <1>1. pass'[c] # NoPass
    BY Zenon, GotoTypes
  <1>2. pass'[c] = [pass[c] EXCEPT !.at = i, !.sub = sub, !.ctx = y]
    BY ZenonT(60) DEF Goto, Typed, TypeOK
  <1>3. pass[c] \in PassesWith(Refs)
    BY DEF Typed, TypeOK
  <1>4. pass'[c].at = i /\ pass'[c].sub = sub /\ pass'[c].ctx = y /\ pass'[c].mirror = pass[c].mirror
    BY ZenonT(60), <1>2, <1>3 DEF PassesWith
  <1> QED
    BY <1>1, <1>4

\* Every step of a claim's pass that does not queue the claim leaves it up to date as far as the pass got.
LEMMA SoundPass ==
    ASSUME Typed, Typed', NEW c \in Claims, PassMove(c), c \notin queued, c \notin queued', Known(c), Sound(c)
    PROVE  Sound(c)'
  <1>1. /\ pass[c] # NoPass /\ pass[c].spec = cspec[c] /\ Running(c)
        /\ UNCHANGED <<ctmpl, spec, cspec>> /\ pass[c].ctx \in Contexts
    BY Zenon DEF PassMove, Around, Known, Sound, Typed, TypeOK, PassesWith
  <1>2. Placed(c) /\ pass[c].at \in 1..(Last + 1)
    BY Zenon, <1>1 DEF Typed, AllPlaced, Placed
  <1>3. PICK refs, x, m, n : refs = cspec[c].refs /\ x = BuildContext(Clusters(c)) /\ m = pass[c].mirror /\ n = pass[c].at
    BY Zenon
  <1>4. /\ pass[c].ctx = x /\ Shown(c, m) /\ n \in 1..(Last + 1)
        /\ \A i \in 1..Last : i <= Through(c) => Done(c, refs, x, i)
    BY ZenonT(60), <1>1, <1>2, <1>3 DEF Running
  <1>5. Through(c) = (IF pass[c].sub = "await" THEN n ELSE n - 1)
    BY Zenon, <1>3 DEF Through
  <1> DEFINE Calm == \A r \in Roles : Object(ClusterKey(c, r))' = Object(ClusterKey(c, r))
  <1>6. ASSUME Calm PROVE Shown(c, m)' /\ x = BuildContext(Clusters(c))'
    <2>1. Clusters(c)' = Clusters(c) /\ BuildContext(Clusters(c))' = BuildContext(Clusters(c))
      BY <1>6, SameClusters
    <2> QED
      BY ZenonT(60), <1>3, <1>4, <2>1 DEF Shown
  <1>7. ASSUME UNCHANGED objects PROVE Calm /\ \A i \in 1..Last : Done(c, refs, x, i) => Done(c, refs, x, i)'
    BY Zenon, <1>1, <1>7 DEF Done, Object, Cached
  <1> HIDE DEF Calm
  <1>8. ASSUME Ends(c), Calm, \A i \in 1..Last : i <= n - 1 => Done(c, refs, x, i)' PROVE Sound(c)'
    <2>1. pass'[c] = NoPass /\ outcome'[c].through = n - 1
      BY <1>3, <1>8, EndEffect, ZenonT(60) DEF Ends
    <2>2. \A i \in 1..Last : i <= outcome'[c].through => Done(c, cspec[c].refs, BuildContext(Clusters(c)), i)'
      BY ZenonT(60), <1>1, <1>3, <1>6, <1>8, <2>1
    <2>3. ASSUME ~outcome'[c].lost
          PROVE  Shown(c, status[c].mirror)' /\ (c \in timer' \/ status'[c].phase = "Failed")
                 /\ (status'[c].phase = "Ready" => outcome'[c].through = Last)
      <3>1. ASSUME NEW phase, NEW requeue, NEW rejected, End(c, phase, requeue, rejected)
            PROVE  /\ status'[c].phase = phase /\ status'[c].mirror = m /\ (requeue => c \in timer')
        <4>1. /\ ~outcome'[c].lost => status'[c].phase = phase /\ status'[c].mirror = pass[c].mirror
              /\ requeue => c \in timer'
          BY <3>1, EndEffect
        <4> QED
          BY Zenon, <1>3, <2>3, <4>1
      <3>2. status'[c].mirror = m
        BY <1>8, <3>1, Zenon DEF Ends
      <3>3. Shown(c, status[c].mirror)'
        BY ZenonT(60), <1>6, <1>8, <3>2 DEF Shown
      <3>4. /\ End(c, "Failed", FALSE, FALSE) => status'[c].phase = "Failed"
            /\ End(c, "Failed", FALSE, TRUE) => status'[c].phase = "Failed"
            /\ End(c, "Provisioning", TRUE, FALSE) => status'[c].phase = "Provisioning" /\ c \in timer'
            /\ End(c, "WaitingDependency", TRUE, FALSE) => status'[c].phase = "WaitingDependency" /\ c \in timer'
            /\ End(c, "Ready", TRUE, FALSE) => c \in timer'
        BY Zenon, <3>1
      <3>5. /\ c \in timer' \/ status'[c].phase = "Failed"
            /\ status'[c].phase = "Ready" => pass[c].at > Last
        BY ZenonT(60), <1>8, <3>4 DEF Ends
      <3>6. pass[c].at > Last => n - 1 = Last
        <4>1. 1 \in 1..Last
          BY LastIs
        <4> QED
          BY ZenonT(60), <1>3, <1>4, <4>1, UpTo
      <3> QED
        BY ZenonT(60), <2>1, <3>3, <3>5, <3>6
    <2>4. Resting(c)'
      BY ZenonT(60), <2>2, <2>3 DEF Resting
    <2> QED
      BY Zenon, <2>1, <2>4 DEF Sound
  <1>9. ASSUME NEW i, NEW sub, Goto(c, i, sub, pass[c].ctx), Calm,
               \/ i = pass[c].at /\ i \in 1..Last /\ sub = "apply"
               \/ i = pass[c].at /\ i \in 1..Last /\ sub = "await" /\ Current(c).kind = "Cluster"
               \/ pass[c].at \in 1..Last /\ i = NextRender(c, pass[c].spec.refs, pass[c].at) /\ sub = FirstCall(i),
               \A j \in 1..Last : j <= (IF sub = "await" THEN i ELSE i - 1) => Done(c, refs, x, j)'
        PROVE  Sound(c)'
    <2>1. /\ pass'[c] # NoPass /\ pass'[c].at = i /\ pass'[c].sub = sub /\ pass'[c].ctx = pass[c].ctx
          /\ pass'[c].mirror = m
      <3>1. pass[c] # NoPass /\ pass[c].ctx \in Contexts
        BY ZenonT(60), <1>1
      <3>2. PICK y : y = pass[c].ctx
        OBVIOUS
      <3>3. y \in Contexts /\ Goto(c, i, sub, y)
        BY Zenon, <1>9, <3>1, <3>2
      <3>4. \/ i = pass[c].at /\ i \in 1..Last /\ sub = "apply"
            \/ i = pass[c].at /\ i \in 1..Last /\ sub = "await" /\ Current(c).kind = "Cluster"
            \/ pass[c].at \in 1..Last /\ i = NextRender(c, pass[c].spec.refs, pass[c].at) /\ sub = FirstCall(i)
        BY Zenon, <1>9
      <3>5. /\ pass'[c] # NoPass /\ pass'[c].at = i /\ pass'[c].sub = sub /\ pass'[c].ctx = y
            /\ pass'[c].mirror = pass[c].mirror
        BY <3>1, <3>3, <3>4, GoesTo, ZenonT(60)
      <3> QED
        BY ZenonT(60), <1>3, <3>2, <3>5
    <2>2. Through(c)' = (IF sub = "await" THEN i ELSE i - 1)
      BY Zenon, <2>1 DEF Through
    <2>3. Shown(c, pass[c].mirror)'
      BY ZenonT(60), <1>6, <1>9, <2>1 DEF Shown
    <2>4. \A j \in 1..Last : j <= Through(c)' => Done(c, cspec[c].refs, BuildContext(Clusters(c)), j)'
      BY ZenonT(60), <1>1, <1>3, <1>6, <1>9, <2>2
    <2>5. Running(c)'
      BY ZenonT(60), <1>4, <1>6, <1>9, <2>1, <2>3, <2>4 DEF Running
    <2> QED
      BY ZenonT(60), <2>1, <2>5 DEF Sound
  <1>10. ASSUME n \in 1..Last, Proceed(c, pass[c].ctx), Calm, \A j \in 1..Last : j <= n => Done(c, refs, x, j)'
         PROVE  Sound(c)'
    <2> DEFINE i == NextRender(c, pass[c].spec.refs, pass[c].at)
    <2>1. Goto(c, i, FirstCall(i), pass[c].ctx) /\ FirstCall(i) # "await"
      BY <1>10 DEF Proceed, FirstCall
    <2>2. ASSUME NEW j \in 1..Last, j <= i - 1 PROVE Done(c, refs, x, j)'
      <3>1. CASE j <= n
        BY ZenonT(60), <1>10, <3>1
      <3>2. CASE ~(j <= n)
        <4>1. n < j
          BY <1>10, <3>2, LastIs
        <4>2. i = NextRender(c, refs, n)
          BY ZenonT(60), <1>1, <1>3
        <4> HIDE DEF i
        <4>3. Skipped(c, refs, renderSteps[j])
          BY ZenonT(60), <1>10, <2>2, <4>1, <4>2, SkippedBetween
        <4> QED
          BY Zenon, <4>3 DEF Done
      <3> QED
        BY ZenonT(60), <3>1, <3>2
    <2> QED
      BY ZenonT(60), <1>3, <1>9, <1>10, <2>1, <2>2
  <1>11. CASE EndsIdle(c)
    <2>1. Ends(c) /\ UNCHANGED objects
      BY <1>11, Zenon DEF EndsIdle, Ends
    <2>2. \A i \in 1..Last : i <= n - 1 => i <= Through(c)
      <3>1. Through(c) = n \/ Through(c) = n - 1
        BY Zenon, <1>5
      <3> QED
        BY ZenonT(60), <1>4, <3>1, UpTo
    <2> QED
      BY ZenonT(60), <1>4, <1>7, <1>8, <2>1, <2>2
  <1>12. CASE Checked(c)
    <2>1. UNCHANGED objects /\ pass[c].sub = "check" /\ n \in 1..Last /\ Goto(c, n, "apply", pass[c].ctx)
      BY ZenonT(60), <1>3, <1>12 DEF Checked, At
    <2>2. Through(c) = n - 1
      BY ZenonT(60), <1>5, <2>1
    <2>3. Calm /\ \A j \in 1..Last : j <= n - 1 => Done(c, refs, x, j)'
      BY ZenonT(60), <1>4, <1>7, <2>1, <2>2
    <2>4. "apply" # "await"
      OBVIOUS
    <2> QED
      BY ZenonT(60), <1>3, <1>9, <2>1, <2>3, <2>4
  <1>13. ASSUME NEW r, Awaited(c, r) PROVE Sound(c)'
    <2>1. /\ UNCHANGED objects /\ pass[c].sub = "await" /\ n \in 1..Last /\ r \in Roles /\ Clusters(c)[r] # NoCluster
          /\ Proceed(c, [pass[c].ctx EXCEPT ![r] = populateClusterFields(Clusters(c)[r])])
      BY Zenon, <1>3, <1>13 DEF Awaited, At
    <2>2. [pass[c].ctx EXCEPT ![r] = populateClusterFields(Clusters(c)[r])] = pass[c].ctx
      BY ZenonT(60), <1>1, <1>3, <1>4, <2>1, RefreshIsIdle
    <2>3. Proceed(c, pass[c].ctx)
      BY <2>1, <2>2, Zenon
    <2>4. Through(c) = n
      BY Zenon, <1>5, <2>1
    <2>5. Calm /\ \A j \in 1..Last : j <= n => Done(c, refs, x, j)'
      BY ZenonT(60), <1>4, <1>7, <2>1, <2>4
    <2> QED
      BY ZenonT(60), <1>10, <2>1, <2>3, <2>5
  <1>14. ASSUME NEW t, NEW k, NEW o, AppliesOne(c, t, k, o) PROVE Sound(c)'
    <2>1. Applies(c, t, k, o) /\ pass[c].sub = "apply" /\ n \in 1..Last
      BY ZenonT(60), <1>3, <1>14 DEF AppliesOne, Applies, At
    <2>2. /\ Current(c).kind # "ConfigMap" => \A j : Object(j)' = Object(j)
          /\ \A i \in 1..Last : i # n => \A y : Object(Key(c, renderSteps[i], y))' = Object(Key(c, renderSteps[i], y))
          /\ Calm
      BY ZenonT(60), <1>3, <2>1, ApplyEffect DEF Calm
    <2>3. \A i \in 1..Last : i < n => Done(c, refs, x, i)
      <3>1. Through(c) = n - 1
        BY ZenonT(60), <1>5, <2>1
      <3> QED
        BY ZenonT(60), <1>4, <3>1, UpTo
    <2>4. \A i \in 1..Last : i < n => Done(c, refs, x, i)'
      <3> SUFFICES ASSUME NEW i \in 1..Last, i < n PROVE Done(c, refs, x, i)'
        OBVIOUS
      <3>1. i # n
        BY LastIs
      <3> QED
        BY ZenonT(60), <1>1, <2>2, <2>3, <3>1, DoneSame
    <2>5. ensureResourceFinalizer(c, k) => Done(c, refs, x, n)'
      BY ZenonT(60), <1>1, <1>3, <1>4, <2>1, <2>3, ApplyDone
    <2>6. ensureResourceFinalizer(c, k) => \A i \in 1..Last : i <= n => Done(c, refs, x, i)'
      BY ZenonT(60), <1>4, <2>4, <2>5, UpTo
    <2>7. \A i \in 1..Last : i <= n - 1 => Done(c, refs, x, i)'
      BY ZenonT(60), <1>4, <2>4, UpTo
    <2>8. CASE End(c, "Provisioning", TRUE, FALSE)
      <3>1. Ends(c)
        BY <2>8, Zenon DEF Ends
      <3> QED
        BY ZenonT(60), <1>8, <2>2, <2>7, <3>1
    <2>9. CASE ensureResourceFinalizer(c, k) /\ Current(c).kind = "Cluster" /\ Goto(c, pass[c].at, "await", pass[c].ctx)
      BY ZenonT(60), <1>3, <1>9, <2>1, <2>2, <2>6, <2>9
    <2>10. CASE ensureResourceFinalizer(c, k) /\ Proceed(c, pass[c].ctx)
      BY ZenonT(60), <1>10, <2>1, <2>2, <2>6, <2>10
    <2> QED
      BY ZenonT(60), <1>14, <2>8, <2>9, <2>10 DEF AppliesOne
  <1> QED
    BY ZenonT(60), <1>11, <1>12, <1>13, <1>14 DEF PassMove

AllSound == \A c \in Claims : Sound(c)

\* Every step keeps every claim up to date as far as its passes got.
LEMMA SoundKept ==
    ASSUME Typed, Typed', Aware, OwnClusters, OwnClusters', AllSound, [Next]_vars PROVE AllSound'
  <1> SUFFICES ASSUME NEW c \in Claims PROVE Sound(c)'
    BY DEF AllSound
  <1>1. CASE c \in queued'
    BY ZenonT(60), <1>1 DEF Sound
  <1>2. CASE c \notin queued'
    <2>1. Sound(c) /\ Known(c) /\ Behind
      BY DEF AllSound, Aware
    <2>2. CASE Begin(c)
      BY ZenonT(60), <2>2, SoundBegin
    <2>3. CASE PassMove(c) /\ c \notin queued
      BY ZenonT(60), <1>2, <2>1, <2>3, SoundPass
    <2>4. CASE Unnoticed(c)
      BY ZenonT(60), <1>2, <2>1, <2>4, SoundUnnoticed
    <2> QED
      BY ZenonT(60), <1>2, <2>2, <2>3, <2>4, Noticed
  <1> QED
    BY ZenonT(60), <1>1, <1>2

\* It holds in every state as long as a claim's clusters are its own.
LEMMA EverSound == ASSUME ClusterTemplatesReserved PROVE Spec => [](Typed /\ Aware /\ AllSound)
  <1>1. Init => AllSound
    BY Zenon DEF Init, AllSound, Sound
  <1>2. Typed /\ Typed' /\ Aware /\ OwnClusters /\ OwnClusters' /\ AllSound /\ [Next]_vars => AllSound'
    BY SoundKept
  <1>3. Typed /\ Aware /\ [Next]_vars => Aware'
    BY AwareKept
  <1>4. Spec => []OwnClusters
    BY ZenonT(60), ClustersAreOwn
  <1> QED
    BY <1>1, <1>2, <1>3, <1>4, Types, AwareStarts, PTL DEF Spec

\* The standard labels win over what a template renders.
LEMMA StandardLabelsWin ==
    ASSUME NEW c, NEW l, l = MergeLabels(TemplateLabels, StandardLabels(c))
    PROVE  l.claimName = c.name /\ l.claimNamespace = <<c.ns>>
  <1> DEFINE s == StandardLabels(c)
  <1>1. "claimName" \in DOMAIN s /\ "claimNamespace" \in DOMAIN s /\ s["claimName"] = c.name /\ s["claimNamespace"] = <<c.ns>>
    BY DEF StandardLabels
  <1> HIDE DEF s
  <1>2. l["claimName"] = c.name /\ l["claimNamespace"] = <<c.ns>>
    BY ZenonT(60), <1>1 DEF MergeLabels, s
  <1> QED
    BY ZenonT(60), <1>2

\* What is settled rests, and the templates it refers to are as the informer shows them.
LEMMA SettledRests ==
    ASSUME AllSound, NEW c \in Claims, Settled(c)
    PROVE  /\ Resting(c) /\ cspec[c] = spec[c]
           /\ \A s : s.field \in DOMAIN spec[c].refs => Cached(spec[c].refs, s) = tmpl[spec[c].refs[s.field]]
  BY DEF AllSound, Sound, Settled, Cached

(***************************************************************************)
(* Changes reach every object: a claim about which no watch has anything   *)
(* more to tell has, as far as its last pass got, the objects its current  *)
(* references, the current templates and the current cluster data ask for, *)
(* owned by and labelled for it.  For any number of claims, templates and  *)
(* workers, and any names, as long as only references meant for clusters   *)
(* lead to templates that render a Cluster.                                *)
(***************************************************************************)
THEOREM ChangesAreRolledOut == ASSUME ClusterTemplatesReserved PROVE Spec => []RolledOut
  <1>1. Typed /\ Aware /\ AllSound => RolledOut
    <2> SUFFICES ASSUME Typed, AllSound, NEW c \in Claims, Settled(c), NEW i \in 1..outcome[c].through,
                        ~Skipped(c, spec[c].refs, renderSteps[i])
                 PROVE  UpToDate(c, renderSteps[i])
      BY Zenon DEF RolledOut
    <2> DEFINE s == renderSteps[i]
               t == tmpl[spec[c].refs[s.field]]
               o == Object(Key(c, s, t.kind))
    <2>1. i \in 1..Last /\ i <= outcome[c].through
      <3>1. outcome[c].through \in 0..Last
        BY ZenonT(60) DEF Typed, TypeOK, Outcomes
      <3> QED
        BY <3>1, LastIs
    <2>2. Done(c, spec[c].refs, BuildContext(Clusters(c)), i)
      BY Zenon, <2>1, SettledRests DEF Resting
    <2>3. PICK u : /\ u = Cached(spec[c].refs, s) /\ u # NoTemplate
                   /\ AskedFor(c, s, u, BuildContext(Clusters(c)), Object(Key(c, s, u.kind)))
      BY <2>2, Zenon DEF Done
    <2>4. s.field \in DOMAIN spec[c].refs
      BY Zenon, <2>3 DEF Cached
    <2>5. u = t
      BY ZenonT(60), <2>3, <2>4, SettledRests
    <2>6. t # NoTemplate /\ AskedFor(c, s, t, BuildContext(Clusters(c)), o)
      BY Zenon, <2>3, <2>5
    <2> HIDE DEF t, o, s
    <2>7. o.labels.claimName = c.name /\ o.labels.claimNamespace = <<c.ns>>
      BY ZenonT(60), <2>6, StandardLabelsWin DEF AskedFor
    <2> QED
      BY Zenon, <2>6, <2>7 DEF AskedFor, UpToDate, t, o, s
  <1> QED
    BY <1>1, EverSound, PTL

(***************************************************************************)
(* A settled claim whose last pass stored Ready has an object of the       *)
(* expected kind for every step it does not skip, under the same condition *)
(* on the templates and whatever writes of earlier passes were lost.       *)
(***************************************************************************)
THEOREM ReadyIsComplete == ASSUME ClusterTemplatesReserved PROVE Spec => []ReadyHasItsObjects
  <1>1. Typed /\ Aware /\ AllSound => ReadyHasItsObjects
    <2> SUFFICES ASSUME Typed, AllSound, NEW c \in Claims, Settled(c), status[c].phase = "Ready", ~outcome[c].lost,
                        NEW i \in 1..Last, ~Skipped(c, spec[c].refs, renderSteps[i])
                 PROVE  Key(c, renderSteps[i], renderSteps[i].kind) \in DOMAIN objects
      BY ZenonT(60) DEF ReadyHasItsObjects
    <2>1. Resting(c) /\ cspec[c] = spec[c]
      BY SettledRests
    <2>2. i <= outcome[c].through
      <3>1. outcome[c].through = Last
        BY ZenonT(60), <2>1 DEF Resting
      <3>2. i <= Last
        BY LastIs
      <3> QED
        BY Zenon, <3>1, <3>2
    <2>3. Done(c, spec[c].refs, BuildContext(Clusters(c)), i)
      BY ZenonT(60), <2>1, <2>2 DEF Resting
    <2>4. Object(Key(c, renderSteps[i], renderSteps[i].kind)) # NoObject
      BY ZenonT(60), <2>3 DEF Done
    <2> QED
      BY ZenonT(60), <2>4, ObjectType DEF Typed
  <1> QED
    BY <1>1, EverSound, PTL

(***************************************************************************)
(* The status that the last pass of a settled claim stored shows the       *)
(* replica counts of its clusters and the templates saw the same numbers,  *)
(* under the same condition.  What the unwatched control planes and        *)
(* removed clusters leave behind is corrected by a requeue, which is       *)
(* pending unless the claim failed.                                        *)
(***************************************************************************)
THEOREM MirrorIsCurrent == ASSUME ClusterTemplatesReserved PROVE Spec => []MirrorFollows
  <1>1. Typed /\ Aware /\ AllSound => MirrorFollows
    <2> SUFFICES ASSUME Typed, AllSound, NEW c \in Claims, NEW r \in Roles, Settled(c), ~outcome[c].lost
                 PROVE  LET seen == Clusters(c)[r]
                            summary == status[c].mirror[r]
                            pending == c \in timer \/ status[c].phase = "Failed" IN
                        IF seen = NoCluster THEN summary.there => pending
                        ELSE /\ summary.there
                             /\ seen.replicas.type # "other" /\ Fits(seen.replicas.n) => summary.count = seen.replicas.n
                             /\ seen.replicas.type = "int64" => BuildContext(Clusters(c))[r].count = summary.count
                             /\ summary.version = version[ClusterKey(c, r)] \/ pending
      BY Zenon DEF MirrorFollows
    <2> DEFINE seen == Clusters(c)[r]
               summary == status[c].mirror[r]
    <2>1. Shown(c, status[c].mirror) /\ (c \in timer \/ status[c].phase = "Failed")
      BY Zenon, SettledRests DEF Resting
    <2>2. CASE seen = NoCluster
      BY ZenonT(60), <2>1, <2>2
    <2>3. CASE seen # NoCluster
      <3>1. summary.there /\ summary.count = toInt32(seen.replicas)
        BY ZenonT(60), <2>1, <2>3 DEF Shown
      <3>2. seen \in ClusterStatuses
        BY ZenonT(60), <2>3, ClustersAre DEF Typed
      <3>3. seen.replicas \in Value
        BY ZenonT(60), <3>2 DEF ClusterStatuses
      <3>4. seen.replicas.n \in Int /\ seen.replicas.type \in {"int64", "float64", "other"}
        BY ZenonT(60), <3>3 DEF Value
      <3>5. BuildContext(Clusters(c))[r] = populateClusterFields(seen)
        BY ZenonT(60), <2>3 DEF BuildContext
      <3> HIDE DEF seen
      <3>6. Fits(seen.replicas.n) => int32(seen.replicas.n) = seen.replicas.n
        BY ZenonT(60), <3>4, Int32Facts
      <3>7. seen.replicas.type # "other" => toInt32(seen.replicas) = int32(seen.replicas.n)
        BY ZenonT(60), <3>4 DEF toInt32
      <3>8. seen.replicas.type = "int64" => populateClusterFields(seen).count = int32(seen.replicas.n)
        BY DEF populateClusterFields, NestedInt64
      <3>9. seen.replicas.type # "other" /\ Fits(seen.replicas.n) => summary.count = seen.replicas.n
        BY ZenonT(60), <3>1, <3>6, <3>7
      <3>10. seen.replicas.type = "int64" => BuildContext(Clusters(c))[r].count = summary.count
        BY Zenon, <3>1, <3>5, <3>7, <3>8
      <3> QED
        BY ZenonT(60), <2>1, <2>3, <3>1, <3>9, <3>10 DEF seen
    <2> QED
      BY Zenon, <2>2, <2>3
  <1> QED
    BY <1>1, EverSound, PTL

===============================================================================
