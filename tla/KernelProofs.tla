------------------------------ MODULE KernelProofs ------------------------------
(* Proofs about kernels: the summary of what was decided, for any number of decisions, and  *)
(* the decisions themselves, for any runtimes, blobs, threads and settings.                 *)
EXTENDS KernelCreation, KernelSummary, NvapiProofs, FiniteSetTheorems

\* Counters only grow, so what one call reads lies between what they were when it
\* began and what they are now.
Between ==
    /\ \A k \in Verdicts : settled[k] <= counters[k]
    /\ scan \in {"reading", "settled", "writing"} =>
         \A k \in Verdicts \ unread : settled[k] <= seen[k] /\ seen[k] <= counters[k]
    /\ scan \in {"settled", "writing"} => unread = {}

\* The total of the call before is at most the total when this one began.
TotalsGrow ==
    /\ last_total <= Total(counters)
    /\ scan = "reading" => last_total <= Total(settled)
    /\ scan \in {"settled", "writing"} => last_total = Total(seen)
    /\ summarized <= last_total

\* The newest summary is the one g_summarized stands for, or about to be.
WrittenTotal ==
    IF scan = "writing" THEN summarized = Total(seen) /\ Total(written) < summarized
    ELSE Total(written) = summarized

SummaryInv == SummaryTypeOK /\ Between /\ TotalsGrow /\ SummaryIsSnapshot /\ WrittenTotal

\* Four numbers, none of them larger than its partner, whose sum is no smaller.
LEMMA FourSums ==
    ASSUME NEW p \in Nat, NEW q \in Nat, NEW r \in Nat, NEW s \in Nat,
           NEW pp \in Nat, NEW qq \in Nat, NEW rr \in Nat, NEW ss \in Nat,
           p <= pp, q <= qq, r <= rr, s <= ss, pp + qq + rr + ss <= p + q + r + s
    PROVE  p = pp /\ q = qq /\ r = rr /\ s = ss
OBVIOUS

\* Two readings of four counters with one sum, the second nowhere smaller, are equal.
LEMMA SameSumSameCounts ==
    ASSUME NEW a \in [Verdicts -> Nat], NEW b \in [Verdicts -> Nat],
           \A k \in Verdicts : a[k] <= b[k], Total(b) <= Total(a)
    PROVE  a = b
<1>1. \A k \in Verdicts : a[k] \in Nat /\ b[k] \in Nat
  OBVIOUS
<1>2. /\ a["native"] \in Nat /\ b["native"] \in Nat /\ a["native"] <= b["native"]
      /\ a["retargeted"] \in Nat /\ b["retargeted"] \in Nat /\ a["retargeted"] <= b["retargeted"]
      /\ a["refused"] \in Nat /\ b["refused"] \in Nat /\ a["refused"] <= b["refused"]
      /\ a["unchanged"] \in Nat /\ b["unchanged"] \in Nat /\ a["unchanged"] <= b["unchanged"]
  BY <1>1 DEF Verdicts
<1>3. b["native"] + b["retargeted"] + b["refused"] + b["unchanged"]
        <= a["native"] + a["retargeted"] + a["refused"] + a["unchanged"]
  BY DEF Total
<1>4. /\ a["native"] = b["native"] /\ a["retargeted"] = b["retargeted"]
      /\ a["refused"] = b["refused"] /\ a["unchanged"] = b["unchanged"]
  BY <1>2, <1>3, FourSums
<1>5. QED
  BY <1>4 DEF Verdicts

LEMMA SumGrows ==
    ASSUME NEW a \in [Verdicts -> Nat], NEW b \in [Verdicts -> Nat], \A k \in Verdicts : a[k] <= b[k]
    PROVE  Total(a) <= Total(b)
<1>1. \A k \in Verdicts : a[k] \in Nat /\ b[k] \in Nat
  OBVIOUS
<1>2. QED
  BY <1>1 DEF Total, Verdicts

LEMMA TotalIsNat == ASSUME NEW a \in [Verdicts -> Nat] PROVE Total(a) \in Nat
BY DEF Total, Verdicts

LEMMA SummaryInvHolds == SummaryInv /\ [SummaryNext]_summaryVars => SummaryInv'
<1> SUFFICES ASSUME SummaryInv, [SummaryNext]_summaryVars PROVE SummaryInv'
  OBVIOUS
<1> USE DEF SummaryInv
<1>1. ASSUME NEW kind \in Verdicts, LogDecision(kind) PROVE SummaryInv'
  <2>1. /\ counters' = [counters EXCEPT ![kind] = counters[kind] + 1]
        /\ UNCHANGED <<last_total, summarized, scan, unread, seen, settled, written>>
    BY <1>1 DEF LogDecision, workerVars
  <2>2. counters' \in [Verdicts -> Nat] /\ \A k \in Verdicts : counters[k] <= counters'[k]
    BY <2>1 DEF SummaryTypeOK
  <2>3. SummaryTypeOK'
    BY <1>1, <2>2 DEF LogDecision, workerVars, SummaryTypeOK
  <2>4. Between'
    BY <2>1, <2>2 DEF Between, SummaryTypeOK
  <2>5. Total(counters) <= Total(counters') /\ Total(counters) \in Nat /\ Total(counters') \in Nat
    BY <2>2, SumGrows, TotalIsNat DEF SummaryTypeOK
  <2>6. TotalsGrow'
    BY <2>1, <2>5 DEF TotalsGrow, SummaryTypeOK
  <2>7. SummaryIsSnapshot' /\ WrittenTotal'
    BY <2>1 DEF SummaryIsSnapshot, WrittenTotal
  <2>8. QED
    BY <2>3, <2>4, <2>6, <2>7
<1>2. CASE ReportDriverResult
  BY <1>2 DEF ReportDriverResult, workerVars, SummaryTypeOK, Between, TotalsGrow, SummaryIsSnapshot,
     WrittenTotal
<1>3. CASE Begin
  <2>1. Between' /\ TotalsGrow'
    BY <1>3 DEF Begin, atomics, SummaryTypeOK, Between, TotalsGrow
  <2>2. QED
    BY <1>3, <2>1 DEF Begin, atomics, SummaryTypeOK, SummaryIsSnapshot, WrittenTotal
<1>4. ASSUME NEW kind \in Verdicts, ReadCounter(kind) PROVE SummaryInv'
  <2>1. SummaryTypeOK' /\ Between'
    BY <1>4 DEF ReadCounter, atomics, SummaryTypeOK, Between
  <2>2. QED
    BY <1>4, <2>1 DEF ReadCounter, atomics, TotalsGrow, SummaryIsSnapshot, WrittenTotal
<1>5. CASE CompareWithLast
  <2>1. /\ Total(seen) \in Nat /\ Total(settled) \in Nat /\ Total(counters) \in Nat
        /\ Total(settled) <= Total(seen) /\ Total(seen) <= Total(counters)
    BY <1>5, SumGrows, TotalIsNat DEF CompareWithLast, Settled, SummaryTypeOK, Between
  <2>2. UNCHANGED <<counters, summarized, unread, seen, settled, written>>
        /\ scan' \in {"settled", "asleep"}
    BY <1>5 DEF CompareWithLast, Settled
  <2>3. SummaryTypeOK' /\ Between' /\ WrittenTotal'
    BY <1>5, <2>1 DEF CompareWithLast, Settled, SummaryTypeOK, Between, WrittenTotal
  <2>4. TotalsGrow'
    BY <1>5, <2>1, <2>2 DEF CompareWithLast, Settled, TotalsGrow, SummaryTypeOK
  <2>5. SummaryIsSnapshot'
    <3>1. scan' = "settled" => Total(seen) <= Total(settled)
      BY <1>5 DEF CompareWithLast, Settled, TotalsGrow
    <3>2. \A k \in Verdicts : settled[k] <= seen[k]
      BY <1>5 DEF CompareWithLast, Settled, Between
    <3>3. scan' = "settled" => seen = settled
      BY <3>1, <3>2, SameSumSameCounts DEF SummaryTypeOK
    <3>4. QED
      BY <2>2, <3>3 DEF SummaryIsSnapshot
  <2>6. QED
    BY <2>3, <2>4, <2>5
<1>6. CASE CompareWithWritten
  <2>1. Total(seen) \in Nat /\ Total(written) \in Nat
    BY TotalIsNat DEF SummaryTypeOK
  <2>2. QED
    BY <1>6, <2>1 DEF CompareWithWritten, News, SummaryTypeOK, Between, TotalsGrow, SummaryIsSnapshot,
       WrittenTotal
<1>7. CASE Write
  <2>1. Total(seen) \in Nat
    BY TotalIsNat DEF SummaryTypeOK
  <2>2. QED
    BY <1>7, <2>1 DEF Write, atomics, SummaryTypeOK, Between, TotalsGrow, SummaryIsSnapshot, WrittenTotal
<1>8. CASE UNCHANGED summaryVars
  BY <1>8 DEF summaryVars, atomics, workerVars, SummaryTypeOK, Between, TotalsGrow, SummaryIsSnapshot,
     WrittenTotal
<1>9. QED
  BY <1>1, <1>2, <1>3, <1>4, <1>5, <1>6, <1>7, <1>8 DEF SummaryNext, ReportSummary

\* The inductive invariant of the summary.
THEOREM SummaryInvariant == SummarySpec => []SummaryInv
<1>1. SummaryInit => SummaryInv
  BY DEF SummaryInit, SummaryInv, SummaryTypeOK, Between, TotalsGrow, SummaryIsSnapshot, WrittenTotal,
         Zero, Total, Verdicts
<1>2. QED
  BY <1>1, SummaryInvHolds, PTL DEF SummarySpec

\* Types of the variables.
THEOREM SummaryTypesAlways == SummarySpec => []SummaryTypeOK
<1>1. SummaryInv => SummaryTypeOK
  BY DEF SummaryInv
<1>2. QED
  BY <1>1, SummaryInvariant, PTL

\* The numbers of every summary were all true at one moment.
THEOREM SummaryIsSnapshotAlways == SummarySpec => []SummaryIsSnapshot
<1>1. SummaryInv => SummaryIsSnapshot
  BY DEF SummaryInv
<1>2. QED
  BY <1>1, SummaryInvariant, PTL

\* Every summary has a larger total than the one before.
THEOREM EachSummaryIsNewsAlways == SummarySpec => EachSummaryIsNews
<1>1. SummaryInv /\ [SummaryNext]_summaryVars => [Write => Total(written') > Total(written)]_summaryVars
  <2> SUFFICES ASSUME SummaryInv, Write PROVE Total(written') > Total(written)
    OBVIOUS
  <2>2. written' = seen /\ Total(written) < Total(seen)
    BY DEF Write, SummaryInv, WrittenTotal
  <2>3. Total(seen) \in Nat /\ Total(written) \in Nat
    BY TotalIsNat DEF SummaryInv, SummaryTypeOK
  <2>4. QED
    BY <2>2, <2>3
<1>2. QED
  BY <1>1, SummaryInvariant, PTL DEF SummarySpec, EachSummaryIsNews

-----------------------------------------------------------------------------
(* KernelCreation.                                                                           *)

\* Past TargetSm a call works with the resolved target, which is an architecture.
Resolved == {"decide", "native", "container", "driver", "return"}

\* A call under way has all its fields.
IsCall(c) ==
    c = [blob |-> c.blob, caller |-> c.caller, choice |-> c.choice, pass |-> c.pass,
         target |-> c.target, provider |-> c.provider, rejected |-> c.rejected]

Shaped ==
    /\ call = [t \in Threads |-> call[t]]
    /\ offer = [t \in Threads |-> offer[t]]
    /\ step = [t \in Threads |-> step[t]]
    /\ \A t \in Threads : step[t] # "idle" => IsCall(call[t]) /\ call[t].blob \in Blobs

TargetInv ==
    /\ target \in (Nat \ {0}) \cup {NoTarget}
    /\ \A t \in Threads :
         /\ step[t] # "idle" => active
         /\ step[t] \in Resolved => target # NoTarget /\ call[t].target = target

Unrunnable(t) == ~AnyRunnable(ImagesOf(Blob(t)), call[t].target)

\* What a thread's offer, and its place in DecideCubin, say of its call.
OfferInv ==
    \A t \in Threads :
        /\ step[t] = "idle" => offer[t] = NoOffer
        /\ step[t] \in {"native", "container"} => Unrunnable(t) /\ Blob(t).kind = "cubin"
        /\ step[t] \in {"native", "container"} /\ call[t].caller # NoModule =>
              call[t].provider = call[t].caller
        /\ step[t] = "driver" /\ Blob(t).kind # "other" =>
              AnyRunnable(offer[t].images, call[t].target)
        /\ offer[t].decision \in {"Substituted", "Refused"} =>
              target # NoTarget /\ ~AnyRunnable(ImagesOf(Blob(t)), target)

KInv == SpoofInv /\ Shaped /\ TargetInv /\ OfferInv /\ AnsweredFromIndex

USE KernelAssumption

\* A PTX image built for the device, and a cubin built for it, run on it.
LEMMA OwnBuildRuns ==
    ASSUME NEW device \in Nat \ {0}
    PROVE  /\ AnyRunnable(Retarget(device), device)
           /\ AnyRunnable({[ptx |-> FALSE, arch |-> device]}, device)
BY DEF AnyRunnable, Retarget, CanRun

\* What a verdict has to be for the call it ends.
Fits(t, v) ==
    /\ v.decision \in {"Unchanged", "Substituted", "Refused"}
    /\ v.decision # "Refused" /\ Blob(t).kind # "other" => AnyRunnable(v.images, call[t].target)
    /\ v.decision # "Unchanged" => Unrunnable(t)
    /\ v.decision = "Substituted" =>
         IF call[t].caller # NoModule THEN v.from \in {NoModule, call[t].caller}
         ELSE v.from \in indexed \cup {NoModule}

LEMMA ConcludeKeeps ==
    ASSUME KInv, NEW t \in Threads, NEW from \in {"decide", "native", "container"}, NEW v,
           Fits(t, v), Conclude(t, from, v), UNCHANGED <<spoofVars, target, indexed, call>>
    PROVE  Shaped' /\ TargetInv' /\ OfferInv' /\ AnsweredFromIndex'
<1> USE DEF KInv, Conclude, FirstOffer, HandedOver, Retries, Advance, Fits, Refused
<1>1. step[t] = from /\ step[t] \in Resolved /\ active' = active
  BY DEF Resolved, spoofVars, activation
<1>2. \/ /\ offer' = [offer EXCEPT ![t] = v]
         /\ \/ step' = [step EXCEPT ![t] = "return"]
            \/ v.decision # "Refused" /\ step' = [step EXCEPT ![t] = "driver"]
      \/ /\ offer' = [offer EXCEPT ![t] = Refused] /\ v.decision = "Substituted"
         /\ step' = [step EXCEPT ![t] = "return"]
      \/ /\ offer' = [offer EXCEPT ![t] = offer[t]]
         /\ step' = [step EXCEPT ![t] = "return"]
  <2>1. CASE call[t].pass = 1 /\ v.decision = "Substituted" /\ ~config.retarget_kernels
    BY <2>1
  <2>2. CASE call[t].pass = 1 /\ ~(v.decision = "Substituted" /\ ~config.retarget_kernels)
    <3>1. offer' = [offer EXCEPT ![t] = v]
      BY <2>2
    <3>2. CASE v.decision = "Refused"
      <4>1. step' = [step EXCEPT ![t] = "return"]
        BY <2>2, <3>2
      <4>2. QED
        BY <3>1, <4>1
    <3>3. CASE v.decision # "Refused"
      <4>1. step' = [step EXCEPT ![t] = "driver"]
        BY <2>2, <3>3
      <4>2. QED
        BY <3>1, <3>3, <4>1
    <3>4. QED
      BY <3>2, <3>3
  <2>3. CASE call[t].pass # 1 /\ v.decision = "Substituted" /\ v.source # offer[t].source
    BY <2>3
  <2>4. CASE call[t].pass # 1 /\ ~(v.decision = "Substituted" /\ v.source # offer[t].source)
    BY <2>4
  <2>5. QED
    BY <2>1, <2>2, <2>3, <2>4
<1>3. Shaped'
  BY <1>1, <1>2 DEF Shaped
<1>4. TargetInv'
  BY <1>1, <1>2 DEF TargetInv, Shaped, Resolved
<1>5. target # NoTarget /\ call[t].target = target
  BY <1>1 DEF TargetInv
<1>6. OfferInv'
  BY <1>1, <1>2, <1>5 DEF OfferInv, Shaped, Unrunnable, Blob
<1>7. AnsweredFromIndex'
  BY <1>1, <1>2 DEF AnsweredFromIndex, Shaped
<1>8. QED
  BY <1>3, <1>4, <1>6, <1>7

LEMMA SmKnown == ASSUME IsSupported(fallback_arch)
                 PROVE  SmFromNvApiArch(fallback_arch, fallback_impl) \in {80, 86}
BY DEF SmFromNvApiArch, IsSupported

LEMMA ResolveKnown ==
    ASSUME SpoofInv, TargetInv, active, ResolveTarget
    PROVE  target' \in Nat \ {0} /\ (target # NoTarget => target' = target)
BY SmKnown DEF SpoofInv, SpoofTypeOK, ActiveBeforeTold, ResolveTarget,
              DetectDeviceSm, TargetInv

LEMMA CreationKeeps ==
    ASSUME KInv, NEW t \in Threads, CreateKernel(t)
    PROVE  Shaped' /\ TargetInv' /\ OfferInv' /\ AnsweredFromIndex'
<1> USE DEF KInv, Advance
<1>0. UNCHANGED spoofVars => active' = active
  BY DEF spoofVars, activation
<1>1. CASE Create(t)
  <2>1. PICK b \in Blobs : \E caller \in {Shape[b].maker, NoModule} :
            /\ ToldAda(Shape[b].maker) /\ Shape[b].maker \in Runtimes
            /\ call' = [call EXCEPT ![t] =
                 [blob |-> b, caller |-> caller, choice |-> PreferredSource, pass |-> 1,
                  target |-> 0, provider |-> NoModule, rejected |-> NoOffer]]
    BY <1>1 DEF Create
  <2>2. active
    BY <2>1 DEF SpoofInv, ActiveBeforeTold, Runtimes, Callers
  <2>3. step[t] = "idle" /\ step' = [step EXCEPT ![t] = "target"] /\ offer[t] = NoOffer
    BY <1>1 DEF Create, OfferInv
  <2>4. UNCHANGED <<spoofVars, target, indexed, offer>>
    BY <1>1 DEF Create
  <2>5. Shaped'
    <3>1. IsCall(call'[t]) /\ call'[t].blob \in Blobs /\ call' = [u \in Threads |-> call'[u]]
      BY <2>1 DEF Shaped, IsCall
    <3>2. QED
      BY <2>1, <2>3, <2>4, <3>1 DEF Shaped
  <2>6. TargetInv'
    BY <1>0, <2>1, <2>2, <2>3, <2>4 DEF TargetInv, Shaped, Resolved
  <2>7. OfferInv' /\ AnsweredFromIndex'
    BY <2>1, <2>3, <2>4 DEF OfferInv, AnsweredFromIndex, Shaped, Unrunnable, Blob, NoOffer
  <2>8. QED
    BY <2>5, <2>6, <2>7
<1>2. CASE TargetSm(t)
  <2>1. active /\ ResolveTarget /\ call' = [call EXCEPT ![t].target = target']
    BY <1>2 DEF TargetSm, TargetInv
  <2>2. target' \in Nat \ {0} /\ (target # NoTarget => target' = target)
    BY <2>1, ResolveKnown
  <2>3. step[t] = "target" /\ step' = [step EXCEPT ![t] = "decide"]
        /\ UNCHANGED <<spoofVars, indexed, offer>>
    BY <1>2 DEF TargetSm
  <2>4. /\ call'[t].target = target' /\ call'[t].blob = call[t].blob
        /\ call'[t].caller = call[t].caller /\ IsCall(call'[t])
        /\ \A u \in Threads \ {t} : call'[u] = call[u]
        /\ call' = [u \in Threads |-> call'[u]]
    <3> DEFINE sm == target'
    <3>1. call' = [call EXCEPT ![t].target = sm] /\ IsCall(call[t])
      BY <2>1, <2>3 DEF Shaped
    <3> HIDE DEF sm
    <3>2. call'[t] = [call[t] EXCEPT !.target = sm]
      BY <3>1 DEF Shaped
    <3>3. call'[t] = [blob |-> call[t].blob, caller |-> call[t].caller,
                      choice |-> call[t].choice, pass |-> call[t].pass, target |-> sm,
                      provider |-> call[t].provider, rejected |-> call[t].rejected]
      BY <3>1, <3>2 DEF IsCall
    <3>4. QED
      BY <3>1, <3>3 DEF Shaped, IsCall, sm
  <2>5. Shaped'
    BY <2>3, <2>4 DEF Shaped
  <2>6. TargetInv'
    BY <1>0, <2>2, <2>3, <2>4 DEF TargetInv, Shaped, Resolved
  <2>7. OfferInv' /\ AnsweredFromIndex'
    BY <2>2, <2>3, <2>4 DEF OfferInv, AnsweredFromIndex, Shaped, Unrunnable, Blob
  <2>8. QED
    BY <2>5, <2>6, <2>7
<1>3. CASE Decide(t)
  <2>1. step[t] = "decide" /\ call[t].target = target /\ target \in Nat \ {0}
        /\ UNCHANGED <<spoofVars, target, indexed>>
    BY <1>3 DEF Decide, TargetInv, Resolved
  <2>2. CASE (Passes(t) \/ Blob(t).kind # "cubin") /\ Conclude(t, "decide", Verdict(t))
             /\ UNCHANGED call
    <3>1. Fits(t, Verdict(t))
      BY <2>1, <2>2, OwnBuildRuns DEF Fits, Verdict, Passes, Unchanged, Refused, Substituted,
         Retargeted, Unrunnable
    <3>2. QED
      BY <2>1, <2>2, <3>1, ConcludeKeeps
  <2>3. CASE /\ ~Passes(t) /\ Blob(t).kind = "cubin" /\ Advance(t, "decide", "native")
             /\ call' = [call EXCEPT ![t].provider = AnsweringProvider(t)]
             /\ UNCHANGED offer
    <3>1. /\ call'[t].target = call[t].target /\ call'[t].blob = call[t].blob
          /\ call'[t].caller = call[t].caller /\ IsCall(call'[t])
          /\ call'[t].caller # NoModule => call'[t].provider = call'[t].caller
          /\ \A u \in Threads \ {t} : call'[u] = call[u]
          /\ call' = [u \in Threads |-> call'[u]]
      <4> DEFINE p == AnsweringProvider(t)
      <4>1. call' = [call EXCEPT ![t].provider = p] /\ IsCall(call[t])
        BY <2>1, <2>3 DEF Shaped
      <4>2. call[t].caller # NoModule => p = call[t].caller
        BY DEF AnsweringProvider
      <4> HIDE DEF p
      <4>3. call'[t] = [call[t] EXCEPT !.provider = p]
        BY <4>1 DEF Shaped
      <4>4. call'[t] = [blob |-> call[t].blob, caller |-> call[t].caller,
                        choice |-> call[t].choice, pass |-> call[t].pass,
                        target |-> call[t].target, provider |-> p,
                        rejected |-> call[t].rejected]
        BY <4>1, <4>3 DEF IsCall
      <4>5. QED
        BY <4>1, <4>2, <4>4 DEF Shaped, IsCall
    <3>2. Shaped'
      BY <2>3, <3>1 DEF Shaped
    <3>3. TargetInv'
      BY <1>0, <2>1, <2>3, <3>1 DEF TargetInv, Shaped, Resolved
    <3>4. OfferInv' /\ AnsweredFromIndex'
      BY <2>1, <2>3, <3>1 DEF OfferInv, AnsweredFromIndex, Shaped, Unrunnable, Blob, Passes
    <3>5. QED
      BY <3>2, <3>3, <3>4
  <2>4. QED
    BY <1>3, <2>2, <2>3 DEF Decide
<1>4. CASE FindNativeCubin(t)
  <2>1. /\ step[t] = "native" /\ call[t].target = target /\ target \in Nat \ {0}
        /\ UNCHANGED <<spoofVars, target, indexed, call>>
    BY <1>4 DEF FindNativeCubin, TargetInv, Resolved
  <2> DEFINE v == Substituted({[ptx |-> FALSE, arch |-> call[t].target]}, Blob(t).arch,
                              call[t].provider)
  <2>2. CASE HasTwin(t) /\ Conclude(t, "native", v)
    <3>1. Fits(t, v)
      BY <2>1, <2>2, OwnBuildRuns DEF Fits, Substituted, OfferInv, HasTwin
    <3>2. QED
      BY <2>1, <2>2, <3>1, ConcludeKeeps
  <2>3. CASE Advance(t, "native", "container") /\ UNCHANGED offer
    BY <1>0, <2>1, <2>3 DEF Shaped, TargetInv, OfferInv, AnsweredFromIndex, Unrunnable, Blob,
       Resolved
  <2>4. QED
    BY <1>4, <2>2, <2>3 DEF FindNativeCubin
<1>5. CASE FindContainerForCubin(t)
  <2> DEFINE origin == Origin(t, call[t].provider)
             v == IF origin # NoBlob /\ Retargets(t, Shape[origin].images)
                  THEN Retargeted(t, Shape[origin].images, call[t].provider) ELSE Refused
  <2>1. /\ step[t] = "container" /\ call[t].target = target /\ target \in Nat \ {0}
        /\ UNCHANGED <<spoofVars, target, indexed, call>> /\ Conclude(t, "container", v)
    BY <1>5 DEF FindContainerForCubin, TargetInv, Resolved
  <2>2. Fits(t, v)
    BY <2>1, OwnBuildRuns DEF Fits, Substituted, Retargeted, Refused, OfferInv, Origin
  <2>3. QED
    BY <2>1, <2>2, ConcludeKeeps
<1>6. CASE DriverAccepts(t)
  BY <1>0, <1>6 DEF DriverAccepts, Shaped, TargetInv, OfferInv, AnsweredFromIndex, Unrunnable,
     Blob, Resolved
<1>7. CASE DriverRejects(t)
  <2>1. /\ step[t] = "driver" /\ UNCHANGED <<spoofVars, target, indexed, offer>>
        /\ step' = [step EXCEPT ![t] = "target"] \/ step' = [step EXCEPT ![t] = "return"]
        /\ \/ UNCHANGED call
           \/ call' = [call EXCEPT ![t].pass = 2, ![t].choice = "Closest",
                                   ![t].rejected = offer[t]]
    BY <1>7 DEF DriverRejects
  <2>2. /\ call'[t].target = call[t].target /\ call'[t].blob = call[t].blob
        /\ call'[t].caller = call[t].caller /\ IsCall(call'[t])
        /\ \A u \in Threads \ {t} : call'[u] = call[u]
        /\ call' = [u \in Threads |-> call'[u]]
    BY <2>1 DEF Shaped, IsCall
  <2>3. Shaped'
    BY <2>1, <2>2 DEF Shaped
  <2>4. TargetInv'
    BY <1>0, <2>1, <2>2 DEF TargetInv, Shaped, Resolved
  <2>5. OfferInv' /\ AnsweredFromIndex'
    BY <2>1, <2>2 DEF OfferInv, AnsweredFromIndex, Shaped, Unrunnable, Blob
  <2>6. QED
    BY <2>3, <2>4, <2>5
<1>8. CASE Return(t)
  <2>1. /\ UNCHANGED <<spoofVars, target, indexed>>
        /\ step' = [step EXCEPT ![t] = "idle"] /\ call' = [call EXCEPT ![t] = NoCall]
        /\ offer' = [offer EXCEPT ![t] = NoOffer] /\ NoOffer.decision = "None"
    BY <1>8 DEF Return, NoOffer
  <2>2. Shaped'
    BY <2>1 DEF Shaped
  <2>3. TargetInv'
    BY <1>0, <2>1 DEF Shaped, TargetInv, Resolved
  <2>4. OfferInv' /\ AnsweredFromIndex'
    BY <2>1 DEF Shaped, OfferInv, AnsweredFromIndex, Unrunnable, Blob
  <2>5. QED
    BY <2>2, <2>3, <2>4
<1>9. QED
  BY <1>1, <1>2, <1>3, <1>4, <1>5, <1>6, <1>7, <1>8 DEF CreateKernel

\* The inductive invariant of kernel creation.
THEOREM KernelInvariant == Spec => []KInv
<1>1. Init => KInv
  BY SpoofInvStarts DEF Init, KInv, Shaped, TargetInv, OfferInv, AnsweredFromIndex, NoOffer,
     Resolved
<1>2. KInv /\ [Next]_vars => KInv'
  <2> SUFFICES ASSUME KInv, [Next]_vars PROVE KInv'
    OBVIOUS
  <2> USE DEF KInv
  <2>1. CASE AskArchitecture
    <3>1. UNCHANGED kernelVars /\ SpoofInv'
      BY <2>1, SpoofInvHolds DEF AskArchitecture
    <3>2. active => active'
      BY <2>1 DEF AskArchitecture, SpoofNext, HookedGetArchInfo, GetArchInfo, Answer,
         ActivateArch, ActivateImpl, ActivateFlag, TellCaller, SetRawScgPriority, activation
    <3>3. QED
      BY <3>1, <3>2 DEF kernelVars, Shaped, TargetInv, OfferInv, AnsweredFromIndex, Unrunnable,
         Blob
  <2>2. CASE WorkerResolves
    <3>1. target = NoTarget /\ target' \in Nat \ {0} /\ active' = active
      BY <2>2, ResolveKnown DEF WorkerResolves, spoofVars, activation
    <3>2. UNCHANGED <<indexed, step, call, offer>> /\ SpoofInv'
      BY <2>2, SpoofInvHolds DEF WorkerResolves
    <3>3. QED
      BY <3>1, <3>2 DEF Shaped, TargetInv, OfferInv, AnsweredFromIndex, Unrunnable, Blob
  <2>3. CASE BuildProviderIndex
    <3>1. UNCHANGED <<spoofVars, target, step, call, offer>> /\ indexed \subseteq indexed'
      BY <2>3 DEF BuildProviderIndex
    <3>2. SpoofInv' /\ active' = active
      BY <3>1, SpoofInvHolds DEF spoofVars, activation
    <3>3. QED
      BY <3>1, <3>2 DEF Shaped, TargetInv, OfferInv, AnsweredFromIndex, Unrunnable, Blob
  <2>4. ASSUME NEW t \in Threads, CreateKernel(t) PROVE KInv'
    <3>1. UNCHANGED spoofVars
      BY <2>4 DEF CreateKernel, Create, TargetSm, Decide, FindNativeCubin, FindContainerForCubin,
         DriverAccepts, DriverRejects, Return
    <3>2. SpoofInv'
      BY <3>1, SpoofInvHolds
    <3>3. QED
      BY <2>4, <3>2, CreationKeeps
  <2>5. CASE UNCHANGED vars
    <3>1. SpoofInv' /\ active' = active
      BY <2>5, SpoofInvHolds DEF vars, spoofVars, activation
    <3>2. QED
      BY <2>5, <3>1 DEF vars, kernelVars, Shaped, TargetInv, OfferInv, AnsweredFromIndex,
         Unrunnable, Blob
  <2>6. QED
    BY <2>1, <2>2, <2>3, <2>4, <2>5 DEF Next
<1>3. QED
  BY <1>1, <1>2, PTL DEF Spec

\* No image the GPU cannot run reaches the driver from a runtime told Ada, on any
\* route and on either attempt (substitute.h:15-23).
THEOREM DriverGetsRunnableAlways == Spec => []DriverGetsRunnable
<1>1. KInv => DriverGetsRunnable
  BY DEF KInv, TargetInv, OfferInv, DriverGetsRunnable, Resolved
<1>2. QED
  BY <1>1, KernelInvariant, PTL

\* The target architecture is never resolved to "unknown".
THEOREM TargetKnownAlways == Spec => []TargetKnown
<1>1. KInv => TargetKnown
  BY DEF KInv, TargetInv, TargetKnown
<1>2. QED
  BY <1>1, KernelInvariant, PTL

\* An image the GPU can run is never replaced or refused.
THEOREM RunnableLeftAloneAlways == Spec => []RunnableLeftAlone
<1>1. KInv => RunnableLeftAlone
  BY DEF KInv, OfferInv, RunnableLeftAlone
<1>2. QED
  BY <1>1, KernelInvariant, PTL

\* A call is answered from the images of the runtime it came from, or of an
\* indexed one when it came from no module.
THEOREM AnsweredFromIndexAlways == Spec => []AnsweredFromIndex
<1>1. KInv => AnsweredFromIndex
  BY DEF KInv
<1>2. QED
  BY <1>1, KernelInvariant, PTL

-----------------------------------------------------------------------------
(* The retry.  What was rejected came from the module the second decision asks, or from    *)
(* none: a known caller is asked both times, and an only index, being the only one still,  *)
(* was the only one before, because indexes are never dropped.                             *)

SamePlace(t) == call[t].rejected.from \in {call[t].provider, NoModule}

\* What a creation at work keeps of its first offer once that was rejected.
Rejected(t) ==
    /\ step[t] \in {"target", "decide", "native", "container"} => offer[t] = call[t].rejected
    /\ step[t] \in {"native", "container"} => call[t].provider = NoModule \/ SamePlace(t)
    /\ step[t] = "driver" =>
         /\ offer[t].decision = "Substituted"
         /\ offer[t].source # call[t].rejected.source
         /\ call[t].rejected.from \in {offer[t].from, NoModule}
    /\ call[t].rejected.decision = "Substituted"

RetryInv ==
    /\ IsFiniteSet(indexed) /\ indexed \subseteq Runtimes
    /\ \A t \in Threads : step[t] # "idle" =>
         /\ offer[t].from # NoModule => Blob(t).kind = "cubin"
         /\ call[t].pass # 1 => Rejected(t)

\* What a verdict has to be for a retry to take it.
FitsRetry(t, v) ==
    /\ v.from # NoModule => Blob(t).kind = "cubin"
    /\ call[t].pass # 1 /\ v.decision = "Substituted" =>
          call[t].rejected.from \in {v.from, NoModule}

LEMMA ConcludeKeepsRetry ==
    ASSUME KInv, RetryInv, NEW t \in Threads, NEW from \in {"decide", "native", "container"},
           NEW v, FitsRetry(t, v), Conclude(t, from, v),
           UNCHANGED <<spoofVars, target, indexed, call>>
    PROVE  RetryInv'
<1>1. step[t] = from /\ step = [u \in Threads |-> step[u]] /\ offer = [u \in Threads |-> offer[u]]
  BY DEF Conclude, Advance, KInv, Shaped
<1>2. \A u \in Threads \ {t} : step'[u] = step[u] /\ offer'[u] = offer[u]
  BY <1>1 DEF Conclude, Advance
<1>3. CASE call[t].pass = 1
  <2>1. offer'[t] = FirstOffer(v) /\ step'[t] \in {"driver", "return"}
    BY <1>1, <1>3 DEF Conclude, Advance
  <2>2. offer'[t].from # NoModule => Blob(t).kind = "cubin"
    BY <2>1 DEF FirstOffer, Refused, FitsRetry
  <2>3. QED
    BY <1>1, <1>2, <1>3, <2>1, <2>2 DEF RetryInv, Rejected, SamePlace, Blob
<1>4. CASE call[t].pass # 1
  <2>1. offer[t] = call[t].rejected /\ call[t].rejected.decision = "Substituted"
    BY <1>1, <1>4 DEF RetryInv, Rejected
  <2>2. CASE Retries(t, v)
    <3>1. offer'[t] = v /\ step'[t] = "driver"
      BY <1>1, <1>4, <2>2 DEF Conclude, Advance
    <3>2. /\ v.decision = "Substituted" /\ v.source # call[t].rejected.source
          /\ call[t].rejected.from \in {v.from, NoModule}
      BY <1>4, <2>1, <2>2 DEF Retries, FitsRetry
    <3>3. QED
      BY <1>1, <1>2, <2>1, <3>1, <3>2 DEF RetryInv, Rejected, SamePlace, Blob, FitsRetry
  <2>3. CASE ~Retries(t, v)
    <3>1. offer'[t] = offer[t] /\ step'[t] = "return"
      BY <1>1, <1>4, <2>3 DEF Conclude, Advance
    <3>2. QED
      BY <1>1, <1>2, <2>1, <3>1 DEF RetryInv, Rejected, SamePlace, Blob
  <2>4. QED
    BY <2>2, <2>3
<1>5. QED
  BY <1>3, <1>4

\* The module DecideCubin asks is the one the rejected image came from, if from any.
LEMMA AskedAgain ==
    ASSUME KInv, RetryInv, NEW t \in Threads, step[t] = "decide", call[t].pass # 1
    PROVE  AnsweringProvider(t) = NoModule \/ call[t].rejected.from \in {AnsweringProvider(t), NoModule}
<1>1. offer[t] = call[t].rejected /\ offer[t].decision = "Substituted"
  BY DEF RetryInv, Rejected
<1>2. CASE call[t].caller # NoModule
  BY <1>1, <1>2 DEF KInv, AnsweredFromIndex, AnsweringProvider
<1>3. CASE call[t].caller = NoModule /\ Cardinality(indexed) = 1
  <2>1. PICK p : indexed = {p}
    BY <1>3, FS_Singleton DEF RetryInv
  <2>2. AnsweringProvider(t) = p
    BY <1>3, <2>1 DEF AnsweringProvider
  <2>3. offer[t].from \in {p, NoModule}
    BY <1>1, <1>3, <2>1 DEF KInv, AnsweredFromIndex
  <2>4. QED
    BY <1>1, <2>2, <2>3
<1>4. CASE call[t].caller = NoModule /\ Cardinality(indexed) # 1
  BY <1>4 DEF AnsweringProvider
<1>5. QED
  BY <1>2, <1>3, <1>4

LEMMA CreationKeepsRetry ==
    ASSUME KInv, RetryInv, NEW t \in Threads, CreateKernel(t)
    PROVE  RetryInv'
<1> USE DEF Advance
<1>0. Shaped /\ (step[t] # "idle" => IsCall(call[t]))
  BY DEF KInv, Shaped
<1>1. CASE Create(t)
  <2>1. /\ step'[t] = "target" /\ step[t] = "idle" /\ call'[t].pass = 1
        /\ \A u \in Threads \ {t} : step'[u] = step[u] /\ call'[u] = call[u]
        /\ UNCHANGED <<indexed, offer>>
    BY <1>0, <1>1 DEF Create, Shaped
  <2>2. offer'[t].from = NoModule
    BY <2>1 DEF KInv, OfferInv, NoOffer
  <2>3. QED
    BY <2>1, <2>2 DEF RetryInv, Rejected, SamePlace, Blob
<1>2. CASE TargetSm(t)
  <2>1. PICK sm : call' = [call EXCEPT ![t].target = sm]
    BY <1>2 DEF TargetSm
  <2>2. call'[t] = [call[t] EXCEPT !.target = sm] /\ IsCall(call[t])
    BY <1>0, <1>2, <2>1 DEF Shaped, TargetSm
  <2>3. /\ call'[t].pass = call[t].pass /\ call'[t].rejected = call[t].rejected
        /\ call'[t].blob = call[t].blob
    BY <2>2 DEF IsCall
  <2>4. /\ \A u \in Threads \ {t} : step'[u] = step[u] /\ call'[u] = call[u]
        /\ step[t] = "target" /\ step'[t] = "decide" /\ UNCHANGED <<indexed, offer>>
    BY <1>0, <1>2, <2>1 DEF TargetSm, Shaped
  <2>5. QED
    BY <2>3, <2>4 DEF RetryInv, Rejected, SamePlace, Blob
<1>3. CASE Decide(t)
  <2>0. step[t] = "decide" /\ UNCHANGED <<spoofVars, target, indexed>>
    BY <1>3 DEF Decide
  <2>1. CASE (Passes(t) \/ Blob(t).kind # "cubin") /\ Conclude(t, "decide", Verdict(t))
             /\ UNCHANGED call
    <3>1. Verdict(t).from = NoModule
      BY <2>1 DEF Verdict, Unchanged, Substituted, Retargeted, Refused
    <3>2. CASE Blob(t).kind # "cubin"
      <4>1. call[t].pass # 1 => call[t].rejected.from = NoModule
        BY <2>0, <3>2 DEF RetryInv, Rejected
      <4>2. QED
        BY <2>0, <2>1, <3>1, <4>1, ConcludeKeepsRetry DEF FitsRetry
    <3>3. CASE Passes(t)
      <4>1. Verdict(t).decision = "Unchanged"
        BY <3>3 DEF Verdict, Unchanged
      <4>2. QED
        BY <2>0, <2>1, <3>1, <4>1, ConcludeKeepsRetry DEF FitsRetry
    <3>4. QED
      BY <2>1, <3>2, <3>3
  <2>2. CASE /\ ~Passes(t) /\ Blob(t).kind = "cubin" /\ Advance(t, "decide", "native")
             /\ call' = [call EXCEPT ![t].provider = AnsweringProvider(t)]
             /\ UNCHANGED offer
    <3> DEFINE p == AnsweringProvider(t)
    <3>1. call' = [call EXCEPT ![t].provider = p] /\ IsCall(call[t])
      BY <1>0, <2>0, <2>2
    <3>2. call[t].pass # 1 => p = NoModule \/ call[t].rejected.from \in {p, NoModule}
      BY <2>0, AskedAgain
    <3> HIDE DEF p
    <3>3. call'[t] = [call[t] EXCEPT !.provider = p]
      BY <1>0, <3>1 DEF Shaped
    <3>4. /\ call'[t].pass = call[t].pass /\ call'[t].rejected = call[t].rejected
          /\ call'[t].blob = call[t].blob /\ call'[t].provider = p
      BY <3>1, <3>3 DEF IsCall
    <3>5. /\ \A u \in Threads \ {t} : step'[u] = step[u] /\ call'[u] = call[u]
          /\ step'[t] = "native"
      BY <1>0, <2>2, <3>1 DEF Shaped
    <3>6. QED
      BY <2>0, <2>2, <3>2, <3>4, <3>5 DEF RetryInv, Rejected, SamePlace, Blob
  <2>3. QED
    BY <1>3, <2>1, <2>2 DEF Decide
<1>4. CASE FindNativeCubin(t)
  <2> DEFINE v == Substituted({[ptx |-> FALSE, arch |-> call[t].target]}, Blob(t).arch,
                              call[t].provider)
  <2>0. step[t] = "native" /\ UNCHANGED <<spoofVars, target, indexed, call>>
    BY <1>4 DEF FindNativeCubin
  <2>1. CASE HasTwin(t) /\ Conclude(t, "native", v)
    <3>1. v.from = call[t].provider /\ call[t].provider # NoModule /\ Blob(t).kind = "cubin"
      BY <2>0, <2>1, SpoofAssumption DEF HasTwin, RetryInv, Runtimes, Substituted, KInv, OfferInv
    <3>2. FitsRetry(t, v)
      BY <2>0, <3>1 DEF FitsRetry, RetryInv, Rejected, SamePlace
    <3>3. QED
      BY <2>0, <2>1, <3>2, ConcludeKeepsRetry
  <2>2. CASE Advance(t, "native", "container") /\ UNCHANGED offer
    <3>1. step'[t] = "container" /\ \A u \in Threads \ {t} : step'[u] = step[u]
      BY <1>0, <2>2 DEF Shaped
    <3>2. QED
      BY <2>0, <2>2, <3>1 DEF RetryInv, Rejected, SamePlace, Blob
  <2>3. QED
    BY <1>4, <2>1, <2>2 DEF FindNativeCubin
<1>5. CASE FindContainerForCubin(t)
  <2> DEFINE origin == Origin(t, call[t].provider)
             v == IF origin # NoBlob /\ Retargets(t, Shape[origin].images)
                  THEN Retargeted(t, Shape[origin].images, call[t].provider) ELSE Refused
  <2>0. /\ step[t] = "container" /\ UNCHANGED <<spoofVars, target, indexed, call>>
        /\ Conclude(t, "container", v)
    BY <1>5 DEF FindContainerForCubin
  <2>1. Blob(t).kind = "cubin"
    BY <2>0 DEF KInv, OfferInv
  <2>2. v.decision = "Substituted" => v.from = call[t].provider /\ call[t].provider # NoModule
    BY SpoofAssumption DEF Refused, Retargeted, Substituted, Origin, RetryInv, Runtimes
  <2>3. FitsRetry(t, v)
    BY <2>0, <2>1, <2>2 DEF FitsRetry, RetryInv, Rejected, SamePlace
  <2>4. QED
    BY <2>0, <2>3, ConcludeKeepsRetry
<1>6. CASE DriverAccepts(t)
  <2>1. /\ step'[t] = "return" /\ step[t] = "driver" /\ UNCHANGED <<indexed, call, offer>>
        /\ \A u \in Threads \ {t} : step'[u] = step[u]
    BY <1>0, <1>6 DEF DriverAccepts, Shaped
  <2>2. QED
    BY <2>1 DEF RetryInv, Rejected, SamePlace, Blob
<1>7. CASE DriverRejects(t)
  <2>0. step[t] = "driver" /\ UNCHANGED <<indexed, offer>> /\ IsCall(call[t])
    BY <1>0, <1>7 DEF DriverRejects
  <2>1. CASE /\ step' = [step EXCEPT ![t] = "target"] /\ offer[t].decision = "Substituted"
             /\ call' = [call EXCEPT ![t].pass = 2, ![t].choice = "Closest",
                                     ![t].rejected = offer[t]]
    <3>1. /\ call'[t].rejected = offer[t] /\ call'[t].blob = call[t].blob
          /\ step'[t] = "target"
          /\ \A u \in Threads \ {t} : step'[u] = step[u] /\ call'[u] = call[u]
      BY <1>0, <2>0, <2>1 DEF Shaped, IsCall
    <3>2. offer'[t].decision = "Substituted" /\ offer'[t] = offer[t] /\ indexed' = indexed
      BY <2>0, <2>1
    <3>3. \A u \in Threads \ {t} : offer'[u] = offer[u]
      BY <2>0
    <3>4. Rejected(t)'
      BY <3>1, <3>2 DEF Rejected
    <3>5. offer'[t].from # NoModule => Blob(t)'.kind = "cubin"
      BY <2>0, <3>1, <3>2 DEF RetryInv, Blob
    <3>6. QED
      BY <3>1, <3>2, <3>3, <3>4, <3>5 DEF RetryInv, Rejected, SamePlace, Blob
  <2>2. CASE step' = [step EXCEPT ![t] = "return"] /\ UNCHANGED call
    <3>1. step'[t] = "return" /\ \A u \in Threads \ {t} : step'[u] = step[u]
      BY <1>0, <2>2 DEF Shaped
    <3>2. QED
      BY <2>0, <2>2, <3>1 DEF RetryInv, Rejected, SamePlace, Blob
  <2>3. QED
    BY <1>7, <2>1, <2>2 DEF DriverRejects
<1>8. CASE Return(t)
  <2>1. /\ step'[t] = "idle" /\ UNCHANGED indexed
        /\ \A u \in Threads \ {t} :
              step'[u] = step[u] /\ call'[u] = call[u] /\ offer'[u] = offer[u]
    BY <1>0, <1>8 DEF Return, Shaped
  <2>2. QED
    BY <2>1 DEF RetryInv, Rejected, SamePlace, Blob
<1>9. QED
  BY <1>1, <1>2, <1>3, <1>4, <1>5, <1>6, <1>7, <1>8 DEF CreateKernel

\* A retry hands over another image than the one just rejected, and it too comes from the
\* runtime that made the first (CreateSubstituted and Fallback, substitute.cpp).
THEOREM RetryDiffersAlways == Spec => []RetryDiffers
<1>1. Init => RetryInv
  BY FS_EmptySet DEF Init, RetryInv
<1>2. KInv /\ RetryInv /\ [Next]_vars => RetryInv'
  <2> SUFFICES ASSUME KInv, RetryInv, [Next]_vars PROVE RetryInv'
    OBVIOUS
  <2>1. CASE UNCHANGED <<indexed, step, call, offer>>
    BY <2>1 DEF RetryInv, Rejected, SamePlace, Blob
  <2>2. CASE BuildProviderIndex
    <3>1. PICK p \in Runtimes : indexed' = indexed \cup {p}
      BY <2>2 DEF BuildProviderIndex
    <3>2. IsFiniteSet(indexed') /\ indexed' \subseteq Runtimes
      BY <3>1, FS_AddElement DEF RetryInv
    <3>3. QED
      BY <2>2, <3>2 DEF BuildProviderIndex, RetryInv, Rejected, SamePlace, Blob
  <2>3. CASE \E t \in Threads : CreateKernel(t)
    BY <2>3, CreationKeepsRetry
  <2>4. QED
    BY <2>1, <2>2, <2>3 DEF Next, AskArchitecture, WorkerResolves, kernelVars, vars
<1>3. RetryInv => RetryDiffers
  BY DEF RetryInv, Rejected, RetryDiffers
<1>4. QED
  BY <1>1, <1>2, <1>3, KernelInvariant, PTL DEF Spec
=============================================================================
