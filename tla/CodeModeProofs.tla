---------------------------- MODULE CodeModeProofs ----------------------------
(***************************************************************************)
(* Proofs about CodeMode, for every set of scripts, every cap and limit and   *)
(* whatever an earlier session left: what scripts store, and how many of      *)
(* their calls run.                                                          *)
(***************************************************************************)
EXTENDS CodeMode, SequenceTheorems, FiniteSetTheorems, TLAPS

-----------------------------------------------------------------------------
(* Scripts and what they store                                             *)

Script(phase, pending, writes, waits, result) ==
    [phase |-> phase, pending |-> pending, writes |-> writes, waits |-> waits, result |-> result]
Overlay(pending) == pending \in [DOMAIN pending -> Nat]
IsScript(r) ==
    /\ r = Script(r.phase, r.pending, r.writes, r.waits, r.result)
    /\ r.phase \in {"idle", "running", "awaiting", "over"}
    /\ (r.phase = "over") = (r.result # "none")
    /\ r.waits # {} => r.phase = "awaiting"
    /\ Overlay(r.pending)
ScriptsAre(f) == f = [s \in Scripts |-> f[s]] /\ \A s \in Scripts : IsScript(f[s])

LEMMA ScriptFields ==
    ASSUME NEW phase, NEW pending, NEW writes, NEW waits, NEW result,
           NEW r, r = Script(phase, pending, writes, waits, result)
    PROVE  /\ r = Script(r.phase, r.pending, r.writes, r.waits, r.result)
           /\ r.phase = phase /\ r.pending = pending /\ r.writes = writes
           /\ r.waits = waits /\ r.result = result
BY DEF Script

\* One entry of a function of the scripts is set.
SetTo(f, g, s, r) ==
    g = [t \in Scripts |-> g[t]] /\ g[s] = r /\ \A t \in Scripts : t # s => g[t] = f[t]

LEMMA ScriptSet ==
    ASSUME NEW f, ScriptsAre(f), NEW s \in Scripts, NEW r, IsScript(r), NEW g, SetTo(f, g, s, r)
    PROVE  ScriptsAre(g)
BY DEF ScriptsAre, SetTo

\* The fields of a script that the actions write.
LEMMA ScriptRead ==
    ASSUME NEW r, IsScript(r)
    PROVE  \E a, b, c, d, e :
               /\ r = [phase |-> a, pending |-> b, writes |-> c, waits |-> d, result |-> e]
               /\ r.phase = a /\ r.pending = b /\ r.writes = c /\ r.waits = d /\ r.result = e
BY DEF IsScript, Script

LEMMA ScriptPhase ==
    ASSUME NEW r, IsScript(r), NEW x, NEW q,
           q = [r EXCEPT !.phase = x]
    PROVE  q = Script(x, r.pending, r.writes, r.waits, r.result)
<1>1. PICK a, b, c, d, e :
          /\ r = [phase |-> a, pending |-> b, writes |-> c, waits |-> d, result |-> e]
          /\ r.phase = a /\ r.pending = b /\ r.writes = c /\ r.waits = d /\ r.result = e
  BY ScriptRead
<1>2. q = Script(x, b, c, d, e)
  BY <1>1 DEF Script
<1> QED
  BY <1>1, <1>2

LEMMA ScriptWrites ==
    ASSUME NEW r, IsScript(r), NEW x, NEW q,
           q = [r EXCEPT !.writes = x]
    PROVE  q = Script(r.phase, r.pending, x, r.waits, r.result)
<1>1. PICK a, b, c, d, e :
          /\ r = [phase |-> a, pending |-> b, writes |-> c, waits |-> d, result |-> e]
          /\ r.phase = a /\ r.pending = b /\ r.writes = c /\ r.waits = d /\ r.result = e
  BY ScriptRead
<1>2. q = Script(a, b, x, d, e)
  BY <1>1 DEF Script
<1> QED
  BY <1>1, <1>2

LEMMA ScriptStored ==
    ASSUME NEW r, IsScript(r), NEW x, NEW y, NEW q,
           q = [[r EXCEPT !.pending = x] EXCEPT !.writes = y]
    PROVE  q = Script(r.phase, x, y, r.waits, r.result)
<1>1. PICK a, b, c, d, e :
          /\ r = [phase |-> a, pending |-> b, writes |-> c, waits |-> d, result |-> e]
          /\ r.phase = a /\ r.pending = b /\ r.writes = c /\ r.waits = d /\ r.result = e
  BY ScriptRead
<1>2. q = Script(a, x, y, d, e)
  BY <1>1 DEF Script
<1> QED
  BY <1>1, <1>2

LEMMA ScriptWaits ==
    ASSUME NEW r, IsScript(r), NEW x, NEW y, NEW q,
           q = [[r EXCEPT !.phase = x] EXCEPT !.waits = y]
    PROVE  q = Script(x, r.pending, r.writes, y, r.result)
<1>1. PICK a, b, c, d, e :
          /\ r = [phase |-> a, pending |-> b, writes |-> c, waits |-> d, result |-> e]
          /\ r.phase = a /\ r.pending = b /\ r.writes = c /\ r.waits = d /\ r.result = e
  BY ScriptRead
<1>2. q = Script(x, b, c, y, e)
  BY <1>1 DEF Script
<1> QED
  BY <1>1, <1>2

LEMMA ScriptOver ==
    ASSUME NEW r, IsScript(r), NEW x, NEW y, NEW z, NEW q,
           q = [[[r EXCEPT !.phase = x] EXCEPT !.waits = y] EXCEPT !.result = z]
    PROVE  q = Script(x, r.pending, r.writes, y, z)
<1>1. PICK a, b, c, d, e :
          /\ r = [phase |-> a, pending |-> b, writes |-> c, waits |-> d, result |-> e]
          /\ r.phase = a /\ r.pending = b /\ r.writes = c /\ r.waits = d /\ r.result = e
  BY ScriptRead
<1>2. q = Script(x, b, c, y, z)
  BY <1>1 DEF Script
<1> QED
  BY <1>1, <1>2

\* The forms in which the actions write a script.
LEMMA ScriptForms ==
    ASSUME NEW f, ScriptsAre(f), NEW s \in Scripts, NEW x, NEW y, NEW z, NEW g
    PROVE  LET r == f[s]
           IN  /\ g = [f EXCEPT ![s].phase = x]
                  => SetTo(f, g, s, Script(x, r.pending, r.writes, r.waits, r.result))
               /\ g = [f EXCEPT ![s].writes = x]
                  => SetTo(f, g, s, Script(r.phase, r.pending, x, r.waits, r.result))
               /\ g = [f EXCEPT ![s].pending = x, ![s].writes = y]
                  => SetTo(f, g, s, Script(r.phase, x, y, r.waits, r.result))
               /\ g = [f EXCEPT ![s].phase = x, ![s].waits = y]
                  => SetTo(f, g, s, Script(x, r.pending, r.writes, y, r.result))
               /\ g = [f EXCEPT ![s].phase = x, ![s].waits = y, ![s].result = z]
                  => SetTo(f, g, s, Script(x, r.pending, r.writes, y, z))
<1> DEFINE r == f[s]
<1>1. IsScript(r) /\ f = [t \in Scripts |-> f[t]]
  BY DEF ScriptsAre
<1>3. ASSUME g = [f EXCEPT ![s].phase = x]
      PROVE  SetTo(f, g, s, [r EXCEPT !.phase = x])
  BY <1>1, <1>3 DEF SetTo
<1>4. ASSUME g = [f EXCEPT ![s].writes = x]
      PROVE  SetTo(f, g, s, [r EXCEPT !.writes = x])
  BY <1>1, <1>4 DEF SetTo
<1>5. ASSUME g = [f EXCEPT ![s].pending = x, ![s].writes = y]
      PROVE  SetTo(f, g, s, [[r EXCEPT !.pending = x] EXCEPT !.writes = y])
  BY <1>1, <1>5 DEF SetTo
<1>6. ASSUME g = [f EXCEPT ![s].phase = x, ![s].waits = y]
      PROVE  SetTo(f, g, s, [[r EXCEPT !.phase = x] EXCEPT !.waits = y])
  BY <1>1, <1>6 DEF SetTo
<1>7. ASSUME g = [f EXCEPT ![s].phase = x, ![s].waits = y, ![s].result = z]
      PROVE  SetTo(f, g, s, [[[r EXCEPT !.phase = x] EXCEPT !.waits = y] EXCEPT !.result = z])
  BY <1>1, <1>7 DEF SetTo
<1> HIDE DEF r
<1> DEFINE a == [r EXCEPT !.phase = x]
           b == [r EXCEPT !.writes = x]
           c == [[r EXCEPT !.pending = x] EXCEPT !.writes = y]
           d == [[r EXCEPT !.phase = x] EXCEPT !.waits = y]
           e == [[[r EXCEPT !.phase = x] EXCEPT !.waits = y] EXCEPT !.result = z]
<1>8. /\ a = Script(x, r.pending, r.writes, r.waits, r.result)
      /\ b = Script(r.phase, r.pending, x, r.waits, r.result)
      /\ c = Script(r.phase, x, y, r.waits, r.result)
      /\ d = Script(x, r.pending, r.writes, y, r.result)
      /\ e = Script(x, r.pending, r.writes, y, z)
  <2>1. a = Script(x, r.pending, r.writes, r.waits, r.result)
    BY <1>1, ScriptPhase
  <2>2. b = Script(r.phase, r.pending, x, r.waits, r.result)
    BY <1>1, ScriptWrites
  <2>3. c = Script(r.phase, x, y, r.waits, r.result)
    BY <1>1, ScriptStored
  <2>4. d = Script(x, r.pending, r.writes, y, r.result)
    BY <1>1, ScriptWaits
  <2>5. e = Script(x, r.pending, r.writes, y, z)
    BY <1>1, ScriptOver
  <2> QED
    BY <2>1, <2>2, <2>3, <2>4, <2>5
<1> HIDE DEF a, b, c, d, e
<1> QED
  BY <1>3, <1>4, <1>5, <1>6, <1>7, <1>8 DEF r, a, b, c, d, e

ScriptsOk == ScriptsAre(scripts)
\* An end that was good stays so.
ResultsKept == \A t \in Scripts : scripts[t].result = "ok" => scripts'[t].result = "ok"
\* Where a script gets to; the others stay.
Goes(s, phase, waits, result) ==
    /\ scripts'[s].phase = phase /\ scripts'[s].waits = waits /\ scripts'[s].result = result
    /\ \A t \in Scripts : t # s => scripts'[t] = scripts[t]

LEMMA ScriptGoes ==
    ASSUME ScriptsOk, NEW s \in Scripts, NEW phase, NEW pending, NEW writes, NEW waits, NEW result,
           SetTo(scripts, scripts', s, Script(phase, pending, writes, waits, result)),
           phase \in {"idle", "running", "awaiting", "over"}, (phase = "over") = (result # "none"),
           waits # {} => phase = "awaiting", Overlay(pending), scripts[s].phase # "over"
    PROVE  ScriptsOk' /\ ResultsKept /\ Goes(s, phase, waits, result)
<1> DEFINE r == Script(phase, pending, writes, waits, result)
<1>1. /\ r = Script(r.phase, r.pending, r.writes, r.waits, r.result)
      /\ r.phase = phase /\ r.pending = pending /\ r.waits = waits /\ r.result = result
  BY ScriptFields
<1> HIDE DEF r
<1>2. IsScript(r)
  BY <1>1 DEF IsScript
<1>3. SetTo(scripts, scripts', s, r)
  BY DEF r
<1>4. ScriptsOk'
  BY <1>2, <1>3, ScriptSet DEF ScriptsOk
<1>5. scripts[s].result = "none"
  BY DEF ScriptsOk, ScriptsAre, IsScript
<1>6. ResultsKept
  BY <1>3, <1>5 DEF ResultsKept, SetTo
<1>7. Goes(s, phase, waits, result)
  BY <1>1, <1>3 DEF Goes, SetTo
<1> QED
  BY <1>4, <1>6, <1>7

LEMMA ScriptHas ==
    ASSUME ScriptsOk, NEW s \in Scripts
    PROVE  /\ IsScript(scripts[s]) /\ Overlay(scripts[s].pending)
           /\ (scripts[s].phase = "over") = (scripts[s].result # "none")
           /\ scripts[s].phase \in {"idle", "running", "awaiting", "over"}
           /\ scripts[s].waits # {} => scripts[s].phase = "awaiting"
BY DEF ScriptsOk, ScriptsAre, IsScript

LEMMA OverlayWith ==
    ASSUME NEW pending, Overlay(pending), NEW key, NEW size \in Nat
    PROVE  Overlay(With(pending, key, size))
BY DEF Overlay, With

LEMMA BeginGoes ==
    ASSUME ScriptsOk, NEW s \in Scripts, Begin(s)
    PROVE  ScriptsOk' /\ ResultsKept /\ Goes(s, "running", {}, "none")
<1> DEFINE r == scripts[s]
<1>1. r.phase = "idle" /\ r.result = "none" /\ r.waits = {} /\ Overlay(r.pending)
  BY ScriptHas DEF Begin, At
<1>2. SetTo(scripts, scripts', s, Script("running", r.pending, r.writes, r.waits, r.result))
  BY ScriptForms DEF ScriptsOk, Begin
<1> QED
  BY <1>1, <1>2, ScriptGoes

LEMMA StoreGoes ==
    ASSUME ScriptsOk, NEW s \in Scripts, NEW key, NEW size \in Nat, Store(s, key, size)
    PROVE  ScriptsOk' /\ ResultsKept /\ Goes(s, "running", {}, "none")
<1> DEFINE r == scripts[s]
           pending == With(r.pending, key, size)
           writes == r.writes + 1
<1>1. r.phase = "running" /\ r.result = "none" /\ r.waits = {} /\ Overlay(r.pending)
  BY ScriptHas DEF Store, At
<1>2. scripts' = [scripts EXCEPT ![s].pending = pending, ![s].writes = writes]
  BY DEF Store
<1>3. Overlay(pending)
  BY <1>1, OverlayWith
<1> HIDE DEF pending, writes
<1>4. SetTo(scripts, scripts', s, Script(r.phase, pending, writes, r.waits, r.result))
  BY <1>2, ScriptForms DEF ScriptsOk
<1> QED
  BY <1>1, <1>3, <1>4, ScriptGoes

LEMMA AppendsGoes ==
    ASSUME ScriptsOk, NEW s \in Scripts, NEW key, Appends(s, key)
    PROVE  ScriptsOk' /\ ResultsKept /\ Goes(s, "running", {}, "none")
<1> DEFINE r == scripts[s]
           writes == r.writes + 1
<1>1. r.phase = "running" /\ r.result = "none" /\ r.waits = {} /\ Overlay(r.pending)
  BY ScriptHas DEF Appends, At
<1>2. scripts' = [scripts EXCEPT ![s].writes = writes]
  BY DEF Appends
<1> HIDE DEF writes
<1>3. SetTo(scripts, scripts', s, Script(r.phase, r.pending, writes, r.waits, r.result))
  BY <1>2, ScriptForms DEF ScriptsOk
<1> QED
  BY <1>1, <1>3, ScriptGoes

LEMMA AwaitsGoes ==
    ASSUME ScriptsOk, NEW s \in Scripts, At(s, "running"), NEW new, Awaits(s, new)
    PROVE  /\ ScriptsOk' /\ ResultsKept
           /\ Goes(s, "awaiting", Len(calls) + 1 .. Len(calls) + Len(new), "none")
<1> DEFINE r == scripts[s]
           waits == Len(calls) + 1 .. Len(calls) + Len(new)
<1>1. r.phase = "running" /\ r.result = "none" /\ Overlay(r.pending)
  BY ScriptHas DEF At
<1>2. scripts' = [scripts EXCEPT ![s].phase = "awaiting", ![s].waits = waits]
  BY DEF Awaits
<1> HIDE DEF waits
<1>3. SetTo(scripts, scripts', s, Script("awaiting", r.pending, r.writes, waits, r.result))
  BY <1>2, ScriptForms DEF ScriptsOk
<1>4. ScriptsOk' /\ ResultsKept /\ Goes(s, "awaiting", waits, "none")
  BY <1>1, <1>3, ScriptGoes
<1> QED
  BY <1>4 DEF waits

LEMMA ResumesGoes ==
    ASSUME ScriptsOk, NEW s \in Scripts, scripts[s].phase \in {"running", "awaiting"},
           scripts' = [scripts EXCEPT ![s].phase = "running", ![s].waits = {}]
    PROVE  ScriptsOk' /\ ResultsKept /\ Goes(s, "running", {}, "none")
<1> DEFINE r == scripts[s]
<1>1. r.result = "none" /\ Overlay(r.pending) /\ r.phase # "over"
  BY ScriptHas
<1>2. SetTo(scripts, scripts', s, Script("running", r.pending, r.writes, {}, r.result))
  BY ScriptForms DEF ScriptsOk
<1> QED
  BY <1>1, <1>2, ScriptGoes

LEMMA EndsGoes ==
    ASSUME ScriptsOk, NEW s \in Scripts, scripts[s].phase \in {"running", "awaiting"},
           NEW result, result # "none",
           scripts' = [scripts EXCEPT ![s].phase = "over", ![s].waits = {}, ![s].result = result]
    PROVE  ScriptsOk' /\ ResultsKept /\ Goes(s, "over", {}, result)
<1> DEFINE r == scripts[s]
<1>1. Overlay(r.pending) /\ r.phase # "over"
  BY ScriptHas
<1>2. SetTo(scripts, scripts', s, Script("over", r.pending, r.writes, {}, result))
  BY ScriptForms DEF ScriptsOk
<1> QED
  BY <1>1, <1>2, ScriptGoes

\* What is stored, and who stored it.
StoreOk == backing \in [DOMAIN backing -> Nat \ {0}] /\ DOMAIN writer = DOMAIN backing
FinishedStored ==
    \A k \in DOMAIN backing : writer[k] \in Scripts => scripts[writer[k]].result = "ok"
StoreInv == ScriptsOk /\ StoreOk /\ FinishedStored

LEMMA StoreInit ==
    ASSUME Init PROVE StoreInv
<1>1. ScriptsOk
  <2>1. scripts = [s \in Scripts |-> Idle]
    BY DEF Init
  <2>2. IsScript(Idle)
    BY DEF IsScript, Idle, Script, Overlay
  <2> QED
    BY <2>1, <2>2 DEF ScriptsOk, ScriptsAre
<1>2. StoreOk
  BY CodeModeAssumption DEF Init, StoreOk
<1>3. \A k \in DOMAIN backing : writer[k] \notin Scripts
  BY CodeModeAssumption DEF Init
<1> QED
  BY <1>1, <1>2, <1>3 DEF StoreInv, FinishedStored

\* A store that is left alone.
LEMMA StoreLeft ==
    ASSUME StoreInv, ScriptsOk', ResultsKept, DOMAIN backing' = DOMAIN backing,
           backing' \in [DOMAIN backing -> Nat \ {0}], writer' = writer
    PROVE  StoreInv'
BY DEF StoreInv, StoreOk, FinishedStored, ResultsKept

LEMMA StagedOk ==
    ASSUME StoreOk, NEW pending, Overlay(pending)
    PROVE  /\ Staged(pending) \in [DOMAIN Staged(pending) -> Nat \ {0}]
           /\ \A k \in DOMAIN Staged(pending) : k \in DOMAIN backing \/ k \in DOMAIN pending
<1> DEFINE all == DOMAIN backing \union DOMAIN pending
           after == [k \in all |-> IF k \in DOMAIN pending THEN pending[k] ELSE backing[k]]
           kept == {k \in all : after[k] # Deleted}
<1>1. \A k \in all : after[k] \in Nat
  BY DEF StoreOk, Overlay
<1>2. Staged(pending) = [k \in kept |-> after[k]]
  BY DEF Staged, Restrict
<1> HIDE DEF after
<1>3. \A k \in kept : after[k] \in Nat \ {0}
  BY <1>1 DEF Deleted
<1> QED
  BY <1>2, <1>3

LEMMA CommitKeeps ==
    ASSUME StoreInv, NEW s \in Scripts, NEW ok \in BOOLEAN, At(s, "running"), Commit(s, ok)
    PROVE  /\ StoreInv' /\ ResultsKept
           /\ \E result \in {"ok", "failed"} : Goes(s, "over", {}, result)
           /\ scripts'[s].result = "ok"
              => Total(backing') <= MaxTotal /\ \A k \in DOMAIN backing' : backing'[k] <= MaxValue
<1> DEFINE pending == scripts[s].pending
           staged == Staged(pending)
           fits == Within(staged, pending)
           result == IF ok /\ fits THEN "ok" ELSE "failed"
<1>1. scripts' = [scripts EXCEPT ![s].phase = "over", ![s].waits = {}, ![s].result = result]
  BY DEF Commit
<1>2. result \in {"ok", "failed"} /\ (result = "ok" => ok /\ fits)
  OBVIOUS
<1>3. Overlay(pending)
  BY ScriptHas DEF StoreInv
<1> HIDE DEF result
<1>4. ScriptsOk' /\ ResultsKept /\ Goes(s, "over", {}, result)
  BY <1>1, <1>2, EndsGoes DEF StoreInv, At
<1>5. scripts'[s].result = result
  BY <1>4 DEF Goes
<1>6. CASE ok /\ fits
  <2>1. /\ backing' = staged
        /\ writer' = [k \in DOMAIN backing' |-> IF k \in DOMAIN pending THEN s ELSE writer[k]]
    BY <1>6 DEF Commit
  <2>2. /\ staged \in [DOMAIN staged -> Nat \ {0}]
        /\ \A k \in DOMAIN staged : k \in DOMAIN backing \/ k \in DOMAIN pending
    BY <1>3, StagedOk DEF StoreInv
  <2>3. Total(staged) <= MaxTotal /\ \A k \in DOMAIN staged : staged[k] <= MaxValue
    BY <1>6 DEF Within
  <2>4. result = "ok"
    BY <1>6 DEF result
  <2> HIDE DEF staged, fits
  <2>5. StoreOk'
    BY <2>1, <2>2 DEF StoreOk
  <2>6. FinishedStored'
    <3> SUFFICES ASSUME NEW k \in DOMAIN staged, writer'[k] \in Scripts
                 PROVE  scripts'[writer'[k]].result = "ok"
      BY <2>1 DEF FinishedStored
    <3>1. CASE k \in DOMAIN pending
      <4>1. writer'[k] = s
        BY <2>1, <3>1
      <4> QED
        BY <1>5, <2>4, <4>1
    <3>2. CASE k \notin DOMAIN pending
      <4>1. writer'[k] = writer[k] /\ k \in DOMAIN backing
        BY <2>1, <2>2, <3>2
      <4>2. scripts[writer[k]].result = "ok"
        BY <4>1 DEF StoreInv, FinishedStored
      <4> QED
        BY <1>4, <4>1, <4>2 DEF ResultsKept
    <3> QED
      BY <3>1, <3>2
  <2> QED
    BY <1>2, <1>4, <2>1, <2>3, <2>5, <2>6 DEF StoreInv
<1>7. CASE ~(ok /\ fits)
  <2>1. backing' = backing /\ writer' = writer
    BY <1>7 DEF Commit
  <2>2. result = "failed"
    BY <1>7 DEF result
  <2>3. StoreInv'
    BY <1>4, <2>1, StoreLeft DEF StoreInv, StoreOk
  <2> QED
    BY <1>2, <1>4, <1>5, <2>2, <2>3
<1> QED
  BY <1>6, <1>7

\* A stored list that a script appends to only grows.
LEMMA AppendsKeeps ==
    ASSUME StoreInv, NEW s \in Scripts, NEW key, Appends(s, key)
    PROVE  StoreInv' /\ ResultsKept /\ Goes(s, "running", {}, "none")
<1>1. ScriptsOk' /\ ResultsKept /\ Goes(s, "running", {}, "none")
  BY AppendsGoes DEF StoreInv
<1>2. key \in DOMAIN backing /\ backing' = [backing EXCEPT ![key] = @ + 1] /\ writer' = writer
  BY DEF Appends
<1>3. backing \in [DOMAIN backing -> Nat \ {0}] /\ backing[key] + 1 \in Nat \ {0}
  BY <1>2 DEF StoreInv, StoreOk
<1>4. DOMAIN backing' = DOMAIN backing /\ backing' \in [DOMAIN backing -> Nat \ {0}]
  BY <1>2, <1>3
<1> QED
  BY <1>1, <1>2, <1>4, StoreLeft

\* What a script that ends well leaves is within the limits.
EndsWithin ==
    \A s \in Scripts : Ends(s) /\ scripts'[s].result = "ok" =>
        Total(backing') <= MaxTotal /\ \A k \in DOMAIN backing' : backing'[k] <= MaxValue

\* A step after which no script is newly over leaves nothing to look at.
LEMMA NoneEnds ==
    ASSUME NEW s \in Scripts, NEW phase, NEW waits, NEW result, Goes(s, phase, waits, result),
           phase # "over" \/ result # "ok"
    PROVE  EndsWithin
BY DEF Goes, EndsWithin, Ends, At

LEMMA ScriptKeeps ==
    ASSUME StoreInv, NEW s \in Scripts, ScriptStep(s) \/ Resumes(s)
    PROVE  StoreInv' /\ EndsWithin
<1>1. CASE Begin(s)
  <2>1. ScriptsOk' /\ ResultsKept /\ Goes(s, "running", {}, "none")
        /\ backing' = backing /\ writer' = writer
    BY <1>1, BeginGoes DEF StoreInv, Begin
  <2> QED
    BY <2>1, NoneEnds, StoreLeft DEF StoreInv, StoreOk
<1>2. CASE \E key \in Keys, size \in Sizes \union {Deleted} : Store(s, key, size)
  <2>1. PICK key \in Keys, size \in Nat : Store(s, key, size)
    BY <1>2, CodeModeAssumption DEF Deleted
  <2>2. ScriptsOk' /\ ResultsKept /\ Goes(s, "running", {}, "none")
        /\ backing' = backing /\ writer' = writer
    BY <2>1, StoreGoes DEF StoreInv, Store
  <2> QED
    BY <2>2, NoneEnds, StoreLeft DEF StoreInv, StoreOk
<1>3. ASSUME NEW new, At(s, "running"), Awaits(s, new) PROVE StoreInv' /\ EndsWithin
  <2> DEFINE waits == Len(calls) + 1 .. Len(calls) + Len(new)
  <2>1. ScriptsOk' /\ ResultsKept /\ Goes(s, "awaiting", waits, "none")
    BY <1>3, AwaitsGoes DEF StoreInv
  <2> HIDE DEF waits
  <2>2. backing' = backing /\ writer' = writer
    BY <1>3 DEF Awaits
  <2> QED
    BY <2>1, <2>2, NoneEnds, StoreLeft DEF StoreInv, StoreOk
<1>4. CASE AwaitsCall(s) \/ \E limit, second : AwaitsBatch(s, limit, second)
  BY <1>3, <1>4 DEF AwaitsCall, AwaitsBatch
<1>5. CASE Spawns(s)
  <2>1. backing' = backing /\ writer' = writer /\ scripts' = scripts
    BY <1>5 DEF Spawns
  <2> QED
    BY <2>1, StoreLeft DEF StoreInv, StoreOk, ResultsKept, ScriptsOk, EndsWithin, Ends, At
<1>6. CASE \E key \in Keys : Appends(s, key)
  BY <1>6, AppendsKeeps, NoneEnds
<1>7. CASE Returns(s) \/ Raises(s)
  <2>1. PICK ok \in BOOLEAN : At(s, "running") /\ Commit(s, ok)
    BY <1>7 DEF Returns, Raises
  <2>2. PICK result \in {"ok", "failed"} : Goes(s, "over", {}, result)
    BY <2>1, CommitKeeps
  <2>3. EndsWithin
    <3> SUFFICES ASSUME NEW t \in Scripts, Ends(t), scripts'[t].result = "ok"
                 PROVE  Total(backing') <= MaxTotal
                        /\ \A k \in DOMAIN backing' : backing'[k] <= MaxValue
      BY DEF EndsWithin
    <3>1. t = s
      BY <2>2 DEF Goes, Ends, At
    <3> QED
      BY <2>1, <3>1, CommitKeeps
  <2> QED
    BY <2>1, <2>3, CommitKeeps
<1>8. CASE Stopped(s)
  <2>1. backing' = backing /\ writer' = writer /\ scripts[s].phase \in {"running", "awaiting"}
    BY <1>8 DEF Stopped
  <2>2. CASE Over(s, "stopped")
    <3>1. ScriptsOk' /\ ResultsKept /\ Goes(s, "over", {}, "stopped")
      BY <2>1, <2>2, EndsGoes DEF StoreInv, Over
    <3> QED
      BY <2>1, <3>1, NoneEnds, StoreLeft DEF StoreInv, StoreOk
  <2>3. CASE scripts' = [scripts EXCEPT ![s].phase = "running", ![s].waits = {}]
    <3>1. ScriptsOk' /\ ResultsKept /\ Goes(s, "running", {}, "none")
      BY <2>1, <2>3, ResumesGoes DEF StoreInv
    <3> QED
      BY <2>1, <3>1, NoneEnds, StoreLeft DEF StoreInv, StoreOk
  <2> QED
    BY <1>8, <2>2, <2>3 DEF Stopped
<1>9. CASE Resumes(s)
  <2>1. ScriptsOk' /\ ResultsKept /\ Goes(s, "running", {}, "none")
        /\ backing' = backing /\ writer' = writer
    BY <1>9, ResumesGoes DEF StoreInv, Resumes, At
  <2> QED
    BY <2>1, NoneEnds, StoreLeft DEF StoreInv, StoreOk
<1> QED
  BY <1>1, <1>2, <1>4, <1>5, <1>6, <1>7, <1>8, <1>9 DEF ScriptStep

LEMMA StoreNext ==
    ASSUME StoreInv, [Next]_vars PROVE StoreInv' /\ EndsWithin
<1>1. CASE Progress \/ UNCHANGED vars
  <2>1. backing' = backing /\ writer' = writer /\ scripts' = scripts
    BY <1>1 DEF Progress, Passes, CallEnds, Unfolds, vars
  <2> QED
    BY <2>1, StoreLeft DEF StoreInv, StoreOk, ResultsKept, ScriptsOk, EndsWithin, Ends, At
<1>2. CASE \E s \in Scripts : ScriptStep(s) \/ Resumes(s)
  BY <1>2, ScriptKeeps
<1> QED
  BY <1>1, <1>2 DEF Next

LEMMA StoreAlways == Spec => []StoreInv
<1>1. StoreInv /\ [Next]_vars => StoreInv'
  BY StoreNext
<1> QED
  BY <1>1, StoreInit, PTL DEF Spec

\* However many scripts run beside one another, and wherever one is stopped, a
\* script that commits leaves the store within the limits of values and of the
\* whole: store.py checks what would be stored, not what it writes.
THEOREM CommitsWithin == Spec => StoreWithin
<1>1. StoreInv /\ [Next]_vars => [EndsWithin]_vars
  BY StoreNext
<1> QED
  BY <1>1, StoreAlways, PTL DEF Spec, StoreWithin, EndsWithin

-----------------------------------------------------------------------------
(* Calls and their gates                                                   *)

Gates == Scripts \X Nat \X (Nat \ {0})
Records ==
    [script : Scripts, kind : {"tool", "inner"}, gates : Seq(Gates), passed : Nat,
     state : {"open", "over"}, under : Nat, awaited : BOOLEAN]

\* A call has at most one gate, the cap's or its batch's, of its own script.
GatesAre(s, gates) ==
    /\ gates \in Seq(Gates) /\ (gates = <<>> \/ Len(gates) = 1)
    /\ gates # <<>> => gates[1][1] = s /\ (gates[1][2] = 0 => gates[1][3] \in Cap)
Fitting(r) ==
    /\ GatesAre(r.script, r.gates) /\ r.passed <= Len(r.gates)
    /\ r.kind = "inner" => r.under = 0 /\ (r.gates # <<>> => r.gates[1][2] > 0)
    /\ r.kind = "tool" /\ r.under = 0 /\ Cap # {} => r.gates # <<>>
    /\ r.kind = "inner" \/ (r.gates # <<>> /\ r.gates[1][2] > 0) => r.awaited
CallsOk == calls \in Seq(Records) /\ \A c \in DOMAIN calls : Fitting(calls[c])

LimitedRec(r) == r.gates # <<>> /\ r.gates[1][2] > 0
\* Calls in a batch in a batch are of the script of the batch they are in, and
\* take the cap unless that batch is in a limited one.
NestedOk ==
    \A c \in DOMAIN calls : calls[c].under > 0 =>
        /\ calls[c].under \in DOMAIN calls /\ calls[calls[c].under].kind = "inner"
        /\ calls[calls[c].under].script = calls[c].script
        /\ ~Limited(c) /\ (Cap # {} /\ ~Limited(calls[c].under) => calls[c].gates # <<>>)
\* A script awaits calls of its own,
WaitsOk ==
    \A s \in Scripts : \A c \in scripts[s].waits :
        c \in DOMAIN calls /\ calls[c].script = s /\ calls[c].under = 0
\* all that it began to await and that are not over;
BatchesAwaited ==
    \A c \in DOMAIN calls :
        Open(c) /\ calls[c].under = 0 /\ calls[c].awaited
            => c \in scripts[calls[c].script].waits
\* a batch inside is open, and awaited, as long as a call in it is;
NestedEnd ==
    \A c \in DOMAIN calls :
        calls[c].under > 0 /\ Open(c) => Open(calls[c].under)
                                         /\ calls[c].under \in scripts[calls[c].script].waits
\* calls that are limited are in one batch.
OneBatch ==
    \A s \in Scripts : \A c, d \in scripts[s].waits :
        Limited(c) /\ Limited(d) => calls[c].gates = calls[d].gates
\* No semaphore is held more often than it counts.
SemaphoresHeld ==
    \A gate \in Gates :
        /\ IsFiniteSet(Holders(gate)) /\ Cardinality(Holders(gate)) <= gate[3]

\* The inductive invariant of calls.
CallsInv ==
    CallsOk /\ NestedOk /\ WaitsOk /\ BatchesAwaited /\ OneBatch /\ SemaphoresHeld /\ NestedEnd

LEMMA CallsAre ==
    ASSUME CallsOk
    PROVE  /\ Len(calls) \in Nat /\ DOMAIN calls = 1 .. Len(calls)
           /\ \A c \in DOMAIN calls :
                  /\ calls[c] \in Records /\ Fitting(calls[c]) /\ calls[c].script \in Scripts
                  /\ calls[c].gates \in Seq(Gates) /\ calls[c].passed \in Nat
                  /\ calls[c].under \in Nat /\ calls[c].kind \in {"tool", "inner"}
                  /\ calls[c].awaited \in BOOLEAN
                  /\ GatesAre(calls[c].script, calls[c].gates)
<1>1. Len(calls) \in Nat /\ DOMAIN calls = 1 .. Len(calls)
  BY LenProperties DEF CallsOk
<1>2. \A c \in DOMAIN calls : calls[c] \in Records /\ Fitting(calls[c])
  BY <1>1, ElementOfSeq DEF CallsOk
<1>3. \A r \in Records : /\ r.script \in Scripts /\ r.gates \in Seq(Gates) /\ r.passed \in Nat
                         /\ r.under \in Nat /\ r.kind \in {"tool", "inner"}
                         /\ r.awaited \in BOOLEAN
  BY DEF Records
<1> HIDE DEF Records
<1> QED
  BY <1>1, <1>2, <1>3 DEF Fitting

\* The one gate of a call.
LEMMA GateIs ==
    ASSUME NEW s, NEW gates, GatesAre(s, gates), gates # <<>>
    PROVE  gates[1] \in Gates /\ Len(gates) = 1
<1>1. gates \in Seq(Gates) /\ Len(gates) = 1
  BY DEF GatesAre
<1>2. 1 \in 1 .. Len(gates)
  BY <1>1
<1> QED
  BY <1>1, <1>2, ElementOfSeq

\* A call past its gate holds it.
LEMMA RunningHolds ==
    ASSUME CallsOk, NEW c \in DOMAIN calls, Through(c), calls[c].gates # <<>>
    PROVE  <<c, 1>> \in Holders(calls[c].gates[1])
<1> DEFINE r == calls[c]
<1>1. r.passed \in Nat /\ Len(r.gates) = 1
  BY CallsAre, GateIs
<1>2. Open(c) /\ ~(r.passed < Len(r.gates))
  BY DEF Through, Waiting
<1>3. 1 <= r.passed
  BY <1>1, <1>2
<1> QED
  BY <1>2, <1>3 DEF Holders

\* What holds one semaphore is as few as it counts.
LEMMA HoldersFew ==
    ASSUME SemaphoresHeld, NEW gate \in Gates, NEW R,
           \A c \in R : <<c, 1>> \in Holders(gate)
    PROVE  Cardinality(R) <= gate[3]
<1> DEFINE f == [c \in R |-> <<c, 1>>]
           H == Holders(gate)
<1>1. IsFiniteSet(H) /\ Cardinality(H) <= gate[3]
  BY DEF SemaphoresHeld
<1>2. f \in Injection(R, H)
  <2>1. f \in [R -> H]
    OBVIOUS
  <2>2. \A a, b \in R : f[a] = f[b] => a = b
    OBVIOUS
  <2> HIDE DEF f, H
  <2> QED
    BY <2>1, <2>2 DEF Injection, IsInjective
<1> HIDE DEF f, H
<1>3. IsFiniteSet(R) /\ Cardinality(R) <= Cardinality(H)
  BY <1>1, <1>2, FS_Injection
<1>4. Cardinality(R) \in Nat /\ Cardinality(H) \in Nat /\ gate[3] \in Nat
  BY <1>1, <1>3, FS_CardinalityType DEF Gates
<1> QED
  BY <1>1, <1>3, <1>4

LEMMA GateCounts ==
    ASSUME NEW gate \in Gates
    PROVE  /\ gate[1] \in Scripts /\ gate[2] \in Nat /\ gate[3] \in Nat \ {0}
           /\ gate = Semaphore(gate[1], gate[2], gate[3])
BY DEF Gates, Semaphore

\* The calls that run beside each other hold one semaphore: the cap's if they
\* are in no batch of its own limit, the batch's if they are.
LEMMA HeldIsCapped ==
    ASSUME CallsInv PROVE CapHeld
<1> SUFFICES ASSUME NEW s \in Scripts, NEW n \in Cap,
                    NEW run, run = {c \in DOMAIN calls :
                                       calls[c].script = s /\ Running(c)}
             PROVE  /\ Cardinality({c \in run : ~Limited(c) /\ ~Inside(c)}) <= n
                    /\ \A c \in run : Limited(c) =>
                          Cardinality({d \in run : Limited(d)}) <= calls[c].gates[1][3]
  BY DEF CapHeld
<1>1. n \in Nat /\ n > 0 /\ \A m \in Cap : m = n
  BY CodeModeAssumption
<1>2. \A c \in run : /\ c \in DOMAIN calls /\ calls[c].script = s
                     /\ calls[c].kind = "tool" /\ Through(c) /\ Open(c)
  BY DEF Running, Through
<1>3. ASSUME NEW c \in run
      PROVE  /\ GatesAre(s, calls[c].gates)
             /\ Limited(c) => calls[c].under = 0 /\ calls[c].awaited /\ calls[c].gates # <<>>
             /\ ~Inside(c) => calls[c].gates # <<>>
  <2>1. /\ GatesAre(s, calls[c].gates) /\ Fitting(calls[c]) /\ calls[c].under \in Nat
        /\ calls[c].kind = "tool"
    BY <1>2, CallsAre DEF CallsInv
  <2>2. Limited(c) => calls[c].awaited /\ calls[c].gates # <<>>
    BY <2>1 DEF Fitting, Limited
  <2>3. CASE calls[c].under = 0
    <3>1. calls[c].gates # <<>>
      BY <2>1, <2>3 DEF Fitting
    <3> QED
      BY <2>1, <2>2, <2>3, <3>1
  <2>4. CASE calls[c].under > 0
    <3>1. ~Limited(c) /\ (Cap # {} /\ ~Limited(calls[c].under) => calls[c].gates # <<>>)
      BY <1>2, <2>4 DEF CallsInv, NestedOk
    <3>2. Cap # {}
      OBVIOUS
    <3> QED
      BY <2>1, <2>4, <3>1, <3>2 DEF Inside
  <2> QED
    BY <2>1, <2>3, <2>4
<1>4. Cardinality({c \in run : ~Limited(c) /\ ~Inside(c)}) <= n
  <2> DEFINE gate == Semaphore(s, 0, n)
  <2>1. gate \in Gates /\ gate[3] = n
    BY <1>1 DEF Gates, Semaphore
  <2>2. ASSUME NEW c \in run, ~Limited(c), ~Inside(c) PROVE <<c, 1>> \in Holders(gate)
    <3> DEFINE own == calls[c].gates[1]
    <3>1. own \in Gates /\ calls[c].gates # <<>>
      BY <1>3, <2>2, GateIs
    <3>2. own[1] = s /\ (own[2] = 0 => own[3] \in Cap)
      BY <1>3, <2>2 DEF GatesAre
    <3>3. ~(own[2] > 0)
      BY <2>2, <3>1 DEF Limited
    <3> HIDE DEF own
    <3>4. own[2] = 0
      BY <3>1, <3>3, GateCounts
    <3>5. own[3] = n
      BY <1>1, <3>2, <3>4
    <3>6. own = gate
      BY <3>1, <3>2, <3>4, <3>5, GateCounts
    <3>7. <<c, 1>> \in Holders(own)
      BY <1>2, <3>1, RunningHolds DEF CallsInv, own
    <3> QED
      BY <3>6, <3>7
  <2> HIDE DEF gate
  <2>3. Cardinality({c \in run : ~Limited(c) /\ ~Inside(c)}) <= gate[3]
    BY <1>1, <2>1, <2>2, HoldersFew DEF CallsInv
  <2> QED
    BY <2>1, <2>3
<1>5. ASSUME NEW c \in run, Limited(c)
      PROVE  Cardinality({d \in run : Limited(d)}) <= calls[c].gates[1][3]
  <2> DEFINE gate == calls[c].gates[1]
  <2>1. \A d \in run : Limited(d) => d \in scripts[s].waits
    BY <1>2, <1>3 DEF CallsInv, BatchesAwaited
  <2>2. \A d \in run : Limited(d) => calls[d].gates = calls[c].gates
    BY <1>5, <2>1 DEF CallsInv, OneBatch
  <2>3. \A d \in run : Limited(d) => <<d, 1>> \in Holders(gate)
    BY <1>2, <1>3, <2>2, RunningHolds DEF CallsInv
  <2>4. gate \in Gates
    BY <1>3, <1>5, GateIs
  <2> HIDE DEF gate
  <2>5. Cardinality({d \in run : Limited(d)}) <= gate[3]
    BY <2>3, <2>4, HoldersFew DEF CallsInv
  <2> QED
    BY <2>5 DEF gate
<1> QED
  BY <1>4, <1>5

\* New calls stand before their gates.
NewOnes(new) ==
    /\ new \in Seq(Records)
    /\ \A i \in 1 .. Len(new) : Fitting(new[i]) /\ new[i].passed = 0

LEMMA CallsMore ==
    ASSUME CallsInv, NEW new, NewOnes(new), calls' = calls \o new
    PROVE  /\ CallsOk' /\ SemaphoresHeld' /\ Len(new) \in Nat
           /\ DOMAIN calls' = 1 .. Len(calls) + Len(new)
           /\ \A c \in DOMAIN calls : c \in DOMAIN calls' /\ calls'[c] = calls[c]
           /\ \A c \in DOMAIN calls' : c \in DOMAIN calls \/
                 \E i \in 1 .. Len(new) : c = Len(calls) + i /\ calls'[c] = new[i]
<1> DEFINE n == Len(calls)
           m == Len(new)
<1>1. n \in Nat /\ DOMAIN calls = 1 .. n /\ calls \in Seq(Records)
  BY CallsAre DEF CallsInv, CallsOk
<1>2. m \in Nat /\ new \in Seq(Records)
  BY LenProperties DEF NewOnes
<1>3. /\ calls' \in Seq(Records) /\ Len(calls') = n + m
      /\ \A i \in 1 .. n + m : calls'[i] = IF i <= n THEN calls[i] ELSE new[i - n]
  BY <1>1, <1>2, ConcatProperties
<1>4. DOMAIN calls' = 1 .. n + m
  BY <1>3, LenProperties
<1> HIDE DEF n, m
<1>5. \A c \in DOMAIN calls : c \in DOMAIN calls' /\ calls'[c] = calls[c]
  <2>1. \A c \in 1 .. n : c \in 1 .. n + m /\ c <= n
    BY <1>1, <1>2
  <2> QED
    BY <1>1, <1>3, <1>4, <2>1
<1>6. \A c \in DOMAIN calls' : c \in DOMAIN calls \/
         \E i \in 1 .. m : c = n + i /\ calls'[c] = new[i]
  <2> SUFFICES ASSUME NEW c \in 1 .. n + m, c \notin 1 .. n
               PROVE  \E i \in 1 .. m : c = n + i /\ calls'[c] = new[i]
    BY <1>1, <1>4
  <2>1. ~(c <= n) /\ c - n \in 1 .. m /\ c = n + (c - n)
    BY <1>1, <1>2
  <2>2. calls'[c] = new[c - n]
    BY <1>3, <2>1
  <2> QED
    BY <2>1, <2>2
<1>7. \A c \in DOMAIN calls' : Fitting(calls'[c])
  BY <1>5, <1>6 DEF CallsInv, CallsOk, NewOnes, m
<1>8. CallsOk'
  BY <1>3, <1>7 DEF CallsOk
<1>9. ASSUME NEW gate \in Gates PROVE Holders(gate)' = Holders(gate)
  <2>1. ASSUME NEW c \in DOMAIN calls', NEW j \in 1 .. 2, c \notin DOMAIN calls
        PROVE  ~(j <= calls'[c].passed)
    <3>1. calls'[c].passed = 0
      BY <1>6, <2>1 DEF NewOnes, m
    <3> QED
      BY <3>1
  <2>2. \A h \in Holders(gate)' : h \in Holders(gate)
    <3> SUFFICES ASSUME NEW h \in Holders(gate)' PROVE h \in Holders(gate)
      OBVIOUS
    <3>1. /\ h \in (DOMAIN calls') \X (1 .. 2) /\ calls'[h[1]].state = "open"
          /\ h[2] <= calls'[h[1]].passed /\ calls'[h[1]].gates[h[2]] = gate
      BY DEF Holders, Open
    <3>2. h[1] \in DOMAIN calls /\ h[2] \in 1 .. 2 /\ h = <<h[1], h[2]>>
      BY <2>1, <3>1
    <3>3. calls'[h[1]] = calls[h[1]]
      BY <1>5, <3>2
    <3> QED
      BY <3>1, <3>2, <3>3 DEF Holders, Open
  <2>3. \A h \in Holders(gate) : h \in Holders(gate)'
    BY <1>5 DEF Holders, Open
  <2> QED
    BY <2>2, <2>3
<1>10. SemaphoresHeld'
  BY <1>9 DEF CallsInv, SemaphoresHeld
<1> QED
  BY <1>2, <1>4, <1>5, <1>6, <1>8, <1>10 DEF n, m

\* An await: the script awaits the new calls and nothing else.
LEMMA AwaitsKeeps ==
    ASSUME CallsInv, NEW s \in Scripts, scripts[s].waits = {}, NEW new, NewOnes(new),
           calls' = calls \o new, NEW result,
           Goes(s, "awaiting", Len(calls) + 1 .. Len(calls) + Len(new), result),
           \A i \in 1 .. Len(new) : new[i].script = s /\ new[i].under = 0,
           \A i, j \in 1 .. Len(new) :
               new[i].gates # <<>> /\ new[j].gates # <<>> => new[i].gates = new[j].gates
    PROVE  CallsInv'
<1> DEFINE n == Len(calls)
           waits == n + 1 .. n + Len(new)
<1>1. /\ CallsOk' /\ SemaphoresHeld' /\ Len(new) \in Nat
      /\ DOMAIN calls' = 1 .. n + Len(new)
      /\ \A c \in DOMAIN calls : c \in DOMAIN calls' /\ calls'[c] = calls[c]
      /\ \A c \in DOMAIN calls' : c \in DOMAIN calls \/
            \E i \in 1 .. Len(new) : c = n + i /\ calls'[c] = new[i]
  BY CallsMore
<1>2. n \in Nat /\ DOMAIN calls = 1 .. n
  BY CallsAre DEF CallsInv
<1>3. scripts'[s].waits = waits /\ \A t \in Scripts : t # s => scripts'[t] = scripts[t]
  BY DEF Goes
<1>4. \A c \in waits : c \in DOMAIN calls' /\ c \notin DOMAIN calls
  BY <1>1, <1>2
<1>5. \A c \in DOMAIN calls' : c \notin DOMAIN calls => c \in waits
  BY <1>1, <1>2
<1>6. \A c \in waits : \E i \in 1 .. Len(new) : calls'[c] = new[i]
  BY <1>1, <1>4
<1> HIDE DEF n, waits
<1>7. \A c \in waits : calls'[c].script = s /\ calls'[c].under = 0
  BY <1>6
<1>8. WaitsOk'
  <2> SUFFICES ASSUME NEW t \in Scripts, NEW c \in scripts'[t].waits
               PROVE  c \in DOMAIN calls' /\ calls'[c].script = t /\ calls'[c].under = 0
    BY DEF WaitsOk
  <2>1. CASE t = s
    BY <1>3, <1>4, <1>7, <2>1
  <2>2. CASE t # s
    <3>1. c \in scripts[t].waits
      BY <1>3, <2>2
    <3>2. c \in DOMAIN calls /\ calls[c].script = t /\ calls[c].under = 0
      BY <3>1 DEF CallsInv, WaitsOk
    <3> QED
      BY <1>1, <3>2
  <2> QED
    BY <2>1, <2>2
<1>9. NestedOk'
  <2> SUFFICES ASSUME NEW c \in DOMAIN calls', calls'[c].under > 0
               PROVE  /\ calls'[c].under \in DOMAIN calls'
                      /\ calls'[calls'[c].under].kind = "inner"
                      /\ calls'[calls'[c].under].script = calls'[c].script
                      /\ ~Limited(c)'
                      /\ Cap # {} /\ ~LimitedRec(calls'[calls'[c].under]) => calls'[c].gates # <<>>
    BY DEF NestedOk, Limited, LimitedRec
  <2>1. c \in DOMAIN calls
    BY <1>5, <1>7
  <2>2. calls'[c] = calls[c] /\ calls[c].under \in DOMAIN calls
        /\ calls[calls[c].under].kind = "inner"
        /\ calls[calls[c].under].script = calls[c].script
        /\ ~Limited(c)
        /\ (Cap # {} /\ ~LimitedRec(calls[calls[c].under]) => calls[c].gates # <<>>)
    BY <1>1, <2>1 DEF CallsInv, NestedOk, Limited, LimitedRec
  <2>3. calls'[calls[c].under] = calls[calls[c].under]
    BY <1>1, <2>2
  <2>4. ~Limited(c)'
    BY <2>2 DEF Limited
  <2> QED
    BY <1>1, <2>2, <2>3, <2>4
<1>10. \A c \in DOMAIN calls : Open(c)' = Open(c) /\ Limited(c)' = Limited(c)
  BY <1>1 DEF Open, Limited
<1>11. \A c \in DOMAIN calls : calls[c].script = s => c \notin scripts[calls[c].script].waits
  OBVIOUS
<1>12. BatchesAwaited'
  <2> SUFFICES ASSUME NEW c \in DOMAIN calls', Open(c)', calls'[c].under = 0,
                      calls'[c].awaited
               PROVE  c \in scripts'[calls'[c].script].waits
    BY DEF BatchesAwaited
  <2>1. CASE c \in DOMAIN calls
    <3>1. calls'[c] = calls[c] /\ c \in scripts[calls[c].script].waits
      BY <1>1, <1>10, <2>1 DEF CallsInv, BatchesAwaited
    <3>2. calls[c].script # s /\ calls[c].script \in Scripts
      BY <2>1, <3>1, CallsAre DEF CallsInv
    <3> QED
      BY <1>3, <3>1, <3>2
  <2>2. CASE c \notin DOMAIN calls
    BY <1>3, <1>5, <1>7, <2>2
  <2> QED
    BY <2>1, <2>2
<1>13. OneBatch'
  <2> SUFFICES ASSUME NEW t \in Scripts, NEW c \in scripts'[t].waits, NEW d \in scripts'[t].waits,
                      Limited(c)', Limited(d)'
               PROVE  calls'[c].gates = calls'[d].gates
    BY DEF OneBatch
  <2>1. CASE t = s
    <3>1. PICK i \in 1 .. Len(new) : calls'[c] = new[i]
      BY <1>3, <1>6, <2>1
    <3>2. PICK j \in 1 .. Len(new) : calls'[d] = new[j]
      BY <1>3, <1>6, <2>1
    <3> QED
      BY <3>1, <3>2 DEF Limited
  <2>2. CASE t # s
    <3>1. c \in scripts[t].waits /\ d \in scripts[t].waits
      BY <1>3, <2>2
    <3>2. c \in DOMAIN calls /\ d \in DOMAIN calls
      BY <3>1 DEF CallsInv, WaitsOk
    <3> QED
      BY <1>1, <1>10, <3>1, <3>2 DEF CallsInv, OneBatch
  <2> QED
    BY <2>1, <2>2
<1>14. NestedEnd'
  <2> SUFFICES ASSUME NEW c \in DOMAIN calls', calls'[c].under > 0, Open(c)'
               PROVE  calls'[calls'[c].under].state = "open"
                      /\ calls'[c].under \in scripts'[calls'[c].script].waits
    BY DEF NestedEnd, Open
  <2>1. c \in DOMAIN calls
    BY <1>5, <1>7
  <2>2. calls'[c] = calls[c] /\ Open(calls[c].under)
        /\ calls[c].under \in scripts[calls[c].script].waits
    BY <1>1, <1>10, <2>1 DEF CallsInv, NestedEnd
  <2>3. calls[c].script # s /\ calls[c].script \in Scripts
    BY <2>1, <2>2, CallsAre DEF CallsInv
  <2>4. calls[c].under \in DOMAIN calls
    BY <2>2, <2>3 DEF CallsInv, WaitsOk
  <2>5. calls'[calls[c].under].state = "open"
    BY <1>1, <2>2, <2>4 DEF Open
  <2> QED
    BY <1>3, <2>2, <2>3, <2>5
<1> QED
  BY <1>1, <1>8, <1>9, <1>12, <1>13, <1>14 DEF CallsInv

\* Calls that no script awaits: on their own, or in a batch that is awaited.
LEMMA UnawaitedKeeps ==
    ASSUME CallsInv, scripts' = scripts, NEW new, NewOnes(new), calls' = calls \o new,
           \A i \in 1 .. Len(new) :
               \/ new[i].under = 0 /\ ~new[i].awaited
               \/ /\ new[i].under \in DOMAIN calls /\ new[i].under > 0 /\ Open(new[i].under)
                  /\ calls[new[i].under].kind = "inner"
                  /\ calls[new[i].under].script = new[i].script
                  /\ new[i].under \in scripts[new[i].script].waits
                  /\ ~LimitedRec(new[i])
                  /\ Cap # {} /\ ~LimitedRec(calls[new[i].under]) => new[i].gates # <<>>
    PROVE  CallsInv'
<1> DEFINE n == Len(calls)
<1>1. /\ CallsOk' /\ SemaphoresHeld'
      /\ \A c \in DOMAIN calls : c \in DOMAIN calls' /\ calls'[c] = calls[c]
      /\ \A c \in DOMAIN calls' : c \in DOMAIN calls \/
            \E i \in 1 .. Len(new) : c = n + i /\ calls'[c] = new[i]
  BY CallsMore
<1> HIDE DEF n
<1>2. \A c \in DOMAIN calls' :
          \/ c \in DOMAIN calls /\ calls'[c] = calls[c]
          \/ calls'[c].under = 0 /\ ~calls'[c].awaited
          \/ /\ calls'[c].under \in DOMAIN calls /\ calls'[c].under > 0
             /\ calls[calls'[c].under].state = "open"
             /\ calls[calls'[c].under].kind = "inner"
             /\ calls[calls'[c].under].script = calls'[c].script
             /\ calls'[c].under \in scripts[calls'[c].script].waits
             /\ ~LimitedRec(calls'[c])
             /\ Cap # {} /\ ~LimitedRec(calls[calls'[c].under]) => calls'[c].gates # <<>>
  <2> TAKE c \in DOMAIN calls'
  <2>1. CASE c \in DOMAIN calls
    BY <1>1, <2>1
  <2>2. CASE \E i \in 1 .. Len(new) : calls'[c] = new[i]
    <3>1. PICK i \in 1 .. Len(new) : calls'[c] = new[i]
      BY <2>2
    <3> QED
      BY <3>1 DEF Open
  <2> QED
    BY <1>1, <2>1, <2>2
<1>3. WaitsOk'
  BY <1>1 DEF CallsInv, WaitsOk
<1>4. OneBatch'
  BY <1>1 DEF CallsInv, WaitsOk, OneBatch, Limited
<1>5. BatchesAwaited'
  <2> SUFFICES ASSUME NEW c \in DOMAIN calls', calls'[c].state = "open", calls'[c].under = 0,
                      calls'[c].awaited
               PROVE  c \in scripts'[calls'[c].script].waits
    BY DEF BatchesAwaited, Open
  <2>1. c \in DOMAIN calls /\ calls'[c] = calls[c]
    BY <1>2
  <2> QED
    BY <2>1 DEF CallsInv, BatchesAwaited, Open
<1>6. NestedOk'
  <2> SUFFICES ASSUME NEW c \in DOMAIN calls', calls'[c].under > 0
               PROVE  /\ calls'[c].under \in DOMAIN calls'
                      /\ calls'[calls'[c].under].kind = "inner"
                      /\ calls'[calls'[c].under].script = calls'[c].script
                      /\ ~LimitedRec(calls'[c])
                      /\ Cap # {} /\ ~LimitedRec(calls'[calls'[c].under]) => calls'[c].gates # <<>>
    BY DEF NestedOk, Limited, LimitedRec
  <2>1. calls'[c].under \in DOMAIN calls /\ calls[calls'[c].under].kind = "inner"
        /\ calls[calls'[c].under].script = calls'[c].script
        /\ ~LimitedRec(calls'[c])
        /\ (Cap # {} /\ ~LimitedRec(calls[calls'[c].under]) => calls'[c].gates # <<>>)
    BY <1>2 DEF CallsInv, NestedOk, Limited, LimitedRec
  <2>2. calls'[calls'[c].under] = calls[calls'[c].under] /\ calls'[c].under \in DOMAIN calls'
    BY <1>1, <2>1
  <2> QED
    BY <2>1, <2>2
<1>7. NestedEnd'
  <2> SUFFICES ASSUME NEW c \in DOMAIN calls', calls'[c].under > 0, calls'[c].state = "open"
               PROVE  calls'[calls'[c].under].state = "open"
                      /\ calls'[c].under \in scripts'[calls'[c].script].waits
    BY DEF NestedEnd, Open
  <2>1. calls'[c].under \in DOMAIN calls
    BY <1>2 DEF CallsInv, NestedOk
  <2>2. calls[calls'[c].under].state = "open"
        /\ calls'[c].under \in scripts[calls'[c].script].waits
    BY <1>2 DEF CallsInv, NestedEnd, Open
  <2> QED
    BY <1>1, <2>1, <2>2
<1> QED
  BY <1>1, <1>3, <1>4, <1>5, <1>6, <1>7 DEF CallsInv

\* Calls of which some are over now, and waits that are.
LEMMA OversKeep ==
    ASSUME CallsInv, DOMAIN calls' = DOMAIN calls, calls' \in Seq(Records),
           \A c \in DOMAIN calls :
               \/ calls'[c] = calls[c]
               \/ calls'[c] = [calls[c] EXCEPT !.state = "over"],
           \A s \in Scripts : scripts'[s].waits \in {scripts[s].waits, {}},
           \A c \in DOMAIN calls :
               \/ calls'[c].state = "over"
               \/ calls[c].under > 0
                  /\ calls'[calls[c].under].state = "open"
                  /\ scripts'[calls[c].script].waits = scripts[calls[c].script].waits
               \/ calls[c].under = 0
                  /\ (c \in scripts[calls[c].script].waits
                         => scripts'[calls[c].script].waits = scripts[calls[c].script].waits)
    PROVE  CallsInv'
<1>1. \A c \in DOMAIN calls :
          /\ calls[c] \in Records /\ Fitting(calls[c])
          /\ calls[c].script \in Scripts /\ calls[c].under \in Nat
  BY CallsAre DEF CallsInv
<1>2. \A r \in Records :
          LET o == [r EXCEPT !.state = "over"]
          IN  /\ o.script = r.script /\ o.kind = r.kind /\ o.gates = r.gates
              /\ o.passed = r.passed /\ o.under = r.under /\ o.state = "over"
              /\ o.awaited = r.awaited
  BY DEF Records
<1> HIDE DEF Records
<1>3. \A c \in DOMAIN calls :
          /\ calls'[c].script = calls[c].script /\ calls'[c].kind = calls[c].kind
          /\ calls'[c].gates = calls[c].gates /\ calls'[c].passed = calls[c].passed
          /\ calls'[c].under = calls[c].under /\ calls'[c].awaited = calls[c].awaited
          /\ calls'[c].state = "open" => calls[c].state = "open"
  <2> TAKE c \in DOMAIN calls
  <2>1. calls[c] \in Records
    BY <1>1
  <2>2. CASE calls'[c] = calls[c]
    BY <2>2
  <2>3. CASE calls'[c] = [calls[c] EXCEPT !.state = "over"]
    BY <1>2, <2>1, <2>3
  <2> QED
    BY <2>2, <2>3
<1>4. CallsOk'
  BY <1>1, <1>3 DEF CallsOk, Fitting
<1>5. NestedOk'
  <2> SUFFICES ASSUME NEW c \in DOMAIN calls, calls[c].under > 0
               PROVE  /\ calls[c].under \in DOMAIN calls
                      /\ calls'[calls[c].under].kind = "inner"
                      /\ calls'[calls[c].under].script = calls[c].script
                      /\ ~LimitedRec(calls'[c])
                      /\ Cap # {} /\ ~LimitedRec(calls'[calls[c].under]) => calls[c].gates # <<>>
    BY <1>3 DEF NestedOk, Limited, LimitedRec
  <2>1. /\ calls[c].under \in DOMAIN calls /\ calls[calls[c].under].kind = "inner"
        /\ calls[calls[c].under].script = calls[c].script
        /\ ~LimitedRec(calls[c])
        /\ (Cap # {} /\ ~LimitedRec(calls[calls[c].under]) => calls[c].gates # <<>>)
    BY DEF CallsInv, NestedOk, Limited, LimitedRec
  <2>2. \A d \in DOMAIN calls : LimitedRec(calls'[d]) = LimitedRec(calls[d])
    BY <1>3 DEF LimitedRec
  <2> QED
    BY <1>3, <2>1, <2>2
<1>6. WaitsOk'
  <2> SUFFICES ASSUME NEW t \in Scripts, NEW c \in scripts'[t].waits
               PROVE  c \in DOMAIN calls' /\ calls'[c].script = t /\ calls'[c].under = 0
    BY DEF WaitsOk
  <2>1. c \in DOMAIN calls /\ calls[c].script = t /\ calls[c].under = 0
    BY DEF CallsInv, WaitsOk
  <2> QED
    BY <1>3, <2>1
<1>7. OneBatch'
  <2> SUFFICES ASSUME NEW t \in Scripts, NEW c \in scripts'[t].waits, NEW d \in scripts'[t].waits,
                      calls'[c].gates # <<>>, calls'[c].gates[1][2] > 0,
                      calls'[d].gates # <<>>, calls'[d].gates[1][2] > 0
               PROVE  calls'[c].gates = calls'[d].gates
    BY DEF OneBatch, Limited
  <2>1. c \in scripts[t].waits /\ d \in scripts[t].waits
    OBVIOUS
  <2>2. c \in DOMAIN calls /\ d \in DOMAIN calls
    BY <2>1 DEF CallsInv, WaitsOk
  <2>3. calls'[c].gates = calls[c].gates /\ calls'[d].gates = calls[d].gates
    BY <1>3, <2>2
  <2> QED
    BY <2>1, <2>3 DEF CallsInv, OneBatch, Limited
<1>8. BatchesAwaited'
  <2> SUFFICES ASSUME NEW c \in DOMAIN calls, calls'[c].state = "open", calls'[c].under = 0,
                      calls'[c].awaited
               PROVE  c \in scripts'[calls'[c].script].waits
    BY DEF BatchesAwaited, Open
  <2>1. c \in scripts[calls[c].script].waits
    BY <1>3 DEF CallsInv, BatchesAwaited, Open
  <2>2. ~(calls[c].under > 0)
    BY <1>3
  <2> QED
    BY <1>3, <2>1, <2>2
<1>9. NestedEnd'
  <2> SUFFICES ASSUME NEW c \in DOMAIN calls, calls'[c].under > 0, calls'[c].state = "open"
               PROVE  calls'[calls'[c].under].state = "open"
                      /\ calls'[c].under \in scripts'[calls'[c].script].waits
    BY DEF NestedEnd, Open
  <2>1. calls[c].under > 0 /\ calls[c].under # 0
    BY <1>1, <1>3
  <2>2. calls'[calls[c].under].state = "open"
        /\ scripts'[calls[c].script].waits = scripts[calls[c].script].waits
    BY <2>1
  <2>3. calls[c].under \in scripts[calls[c].script].waits
    BY <1>3, <2>1 DEF CallsInv, NestedEnd, Open
  <2> QED
    BY <1>3, <2>2, <2>3
<1>10. SemaphoresHeld'
  <2> SUFFICES ASSUME NEW gate \in Gates
               PROVE  IsFiniteSet(Holders(gate)') /\ Cardinality(Holders(gate)') <= gate[3]
    BY DEF SemaphoresHeld
  <2> DEFINE before == Holders(gate)
             after == Holders(gate)'
  <2>1. after \in SUBSET before
    BY <1>3 DEF Holders, Open
  <2>2. IsFiniteSet(before) /\ Cardinality(before) <= gate[3]
    BY DEF CallsInv, SemaphoresHeld
  <2> HIDE DEF before, after
  <2>3. IsFiniteSet(after) /\ Cardinality(after) <= Cardinality(before)
        /\ Cardinality(after) \in Nat /\ Cardinality(before) \in Nat
    BY <2>1, <2>2, FS_Subset, FS_CardinalityType
  <2>4. gate[3] \in Nat
    BY GateCounts
  <2> QED
    BY <2>2, <2>3, <2>4 DEF after
<1> QED
  BY <1>4, <1>5, <1>6, <1>7, <1>8, <1>9, <1>10 DEF CallsInv

LEMMA CallStates ==
    ASSUME CallsOk
    PROVE  \A c \in DOMAIN calls : calls[c].state \in {"open", "over"}
<1>1. \A r \in Records : r.state \in {"open", "over"}
  BY DEF Records
<1> HIDE DEF Records
<1> QED
  BY <1>1, CallsAre

\* What a script does that is not waiting leaves the calls alone.
LEMMA WaitsLeft ==
    ASSUME CallsInv, calls' = calls, \A s \in Scripts : scripts'[s].waits = scripts[s].waits
    PROVE  CallsInv'
<1>1. \A c \in DOMAIN calls : calls[c].script \in Scripts /\ calls[c].under \in Nat
  BY CallsAre DEF CallsInv
<1>2. \A c \in DOMAIN calls : calls[c].state \in {"open", "over"}
  BY CallStates DEF CallsInv
<1>3. ASSUME NEW c \in DOMAIN calls, calls[c].under > 0, calls[c].state # "over"
      PROVE  calls[calls[c].under].state = "open"
  BY <1>2, <1>3 DEF CallsInv, NestedEnd, Open
<1>4. \A c \in DOMAIN calls : calls[c].under > 0 \/ calls[c].under = 0
  BY <1>1
<1>5. calls \in Seq(Records)
  BY DEF CallsInv, CallsOk
<1> QED
  BY <1>1, <1>3, <1>4, <1>5, OversKeep

LEMMA ResumesKeeps ==
    ASSUME CallsInv, NEW s \in Scripts, calls' = calls,
           scripts'[s].waits = {}, \A t \in Scripts : t # s => scripts'[t] = scripts[t],
           \A c \in scripts[s].waits : ~Open(c)
    PROVE  CallsInv'
<1>1. \A c \in DOMAIN calls : calls[c].script \in Scripts /\ calls[c].under \in Nat
  BY CallsAre DEF CallsInv
<1>2. \A c \in DOMAIN calls : calls[c].state \in {"open", "over"}
  BY CallStates DEF CallsInv
<1>3. ASSUME NEW c \in DOMAIN calls, calls[c].under > 0, calls[c].state # "over"
      PROVE  calls[calls[c].under].state = "open"
             /\ scripts'[calls[c].script].waits = scripts[calls[c].script].waits
  <2>1. Open(calls[c].under) /\ calls[c].under \in scripts[calls[c].script].waits
    BY <1>2, <1>3 DEF CallsInv, NestedEnd, Open
  <2>2. calls[c].script # s
    BY <2>1
  <2> QED
    BY <1>1, <2>1, <2>2 DEF Open
<1>4. ASSUME NEW c \in DOMAIN calls, calls[c].state # "over", c \in scripts[calls[c].script].waits
      PROVE  scripts'[calls[c].script].waits = scripts[calls[c].script].waits
  BY <1>1, <1>2, <1>4 DEF Open
<1>5. \A c \in DOMAIN calls : calls[c].under > 0 \/ calls[c].under = 0
  BY <1>1
<1>6. calls \in Seq(Records)
  BY DEF CallsInv, CallsOk
<1>7. \A t \in Scripts : scripts'[t].waits \in {scripts[t].waits, {}}
  OBVIOUS
<1> QED
  BY <1>3, <1>4, <1>5, <1>6, <1>7, OversKeep

\* Calls that are over are records still.
LEMMA OversAreRecords ==
    ASSUME CallsOk, NEW K, calls' = [c \in DOMAIN calls |->
                                        IF c \in K THEN [calls[c] EXCEPT !.state = "over"] ELSE calls[c]]
    PROVE  DOMAIN calls' = DOMAIN calls /\ calls' \in Seq(Records)
<1>1. Len(calls) \in Nat /\ DOMAIN calls = 1 .. Len(calls)
      /\ \A c \in DOMAIN calls : calls[c] \in Records
  BY CallsAre
<1>2. \A r \in Records : [r EXCEPT !.state = "over"] \in Records
  BY DEF Records
<1> HIDE DEF Records
<1>3. calls' \in [1 .. Len(calls) -> Records]
  BY <1>1, <1>2
<1> QED
  BY <1>1, <1>3, SeqDef

LEMMA CallEndsKeeps ==
    ASSUME CallsInv, scripts' = scripts, NEW c \in DOMAIN calls, CallEnds(c) PROVE CallsInv'
<1>1. calls' = [d \in DOMAIN calls |->
                   IF d \in {c} THEN [calls[d] EXCEPT !.state = "over"] ELSE calls[d]]
  <2>1. calls \in Seq(Records) /\ calls = [d \in DOMAIN calls |-> calls[d]]
    BY CallsAre, LenProperties DEF CallsInv, CallsOk
  <2> QED
    BY <2>1 DEF CallEnds
<1>2. DOMAIN calls' = DOMAIN calls /\ calls' \in Seq(Records)
  BY <1>1, OversAreRecords DEF CallsInv
<1>3. \A d \in DOMAIN calls : d # c => calls'[d] = calls[d]
  BY <1>1
<1>4. calls'[c] = [calls[c] EXCEPT !.state = "over"]
  BY <1>1
<1>5. calls'[c].state = "over"
  <2>1. calls[c] \in Records
    BY CallsAre DEF CallsInv
  <2>2. \A r \in Records : [r EXCEPT !.state = "over"].state = "over"
    BY DEF Records
  <2> HIDE DEF Records
  <2> QED
    BY <1>4, <2>1, <2>2
<1>6. \A d \in DOMAIN calls : calls[d].state \in {"open", "over"} /\ calls[d].under \in Nat
  BY CallStates, CallsAre DEF CallsInv
<1>7. ASSUME NEW d \in DOMAIN calls, calls'[d].state # "over", calls[d].under > 0
      PROVE  calls'[calls[d].under].state = "open"
  <2>1. d # c /\ calls[d].state = "open"
    BY <1>3, <1>5, <1>6, <1>7
  <2>2. /\ calls[d].under \in DOMAIN calls /\ calls[calls[d].under].kind = "inner"
        /\ calls[calls[d].under].state = "open"
    BY <1>7, <2>1 DEF CallsInv, NestedOk, NestedEnd, Open
  <2>3. calls[d].under # c
    <3> SUFFICES ASSUME calls[d].under = c PROVE FALSE
      OBVIOUS
    <3>1. d \in Children(c) /\ Open(d)
      BY <2>1 DEF Children, Open
    <3>2. ~Running(c)
      BY <2>2 DEF Running
    <3> QED
      BY <3>1, <3>2 DEF CallEnds
  <2> QED
    BY <1>3, <2>2, <2>3
<1>8. \A d \in DOMAIN calls : calls[d].under > 0 \/ calls[d].under = 0
  BY <1>6
<1>9. \A d \in DOMAIN calls : calls'[d] = calls[d] \/ calls'[d] = [calls[d] EXCEPT !.state = "over"]
  BY <1>3, <1>4
<1> QED
  BY <1>2, <1>7, <1>8, <1>9, OversKeep

LEMMA HaltKeeps ==
    ASSUME CallsInv, NEW s \in Scripts, Halt(s), scripts'[s].waits = {},
           \A t \in Scripts : t # s => scripts'[t] = scripts[t]
    PROVE  CallsInv'
<1> DEFINE W == scripts[s].waits
           K == {c \in DOMAIN calls : Open(c) /\ (c \in W \/ calls[c].under \in W)}
<1>1. /\ Len(calls) \in Nat /\ DOMAIN calls = 1 .. Len(calls)
      /\ \A c \in DOMAIN calls :
             /\ calls[c].script \in Scripts /\ calls[c].under \in Nat /\ calls[c] \in Records
             /\ calls[c].state \in {"open", "over"}
  BY CallsAre, CallStates DEF CallsInv
<1>2. \A c \in DOMAIN calls : c \in UNION {Children(d) : d \in W} <=> calls[c].under \in W
  BY DEF Children
<1>3. calls' = [c \in DOMAIN calls |->
                   IF c \in K THEN [calls[c] EXCEPT !.state = "over"] ELSE calls[c]]
  BY <1>2 DEF Halt
<1>4. DOMAIN calls' = DOMAIN calls /\ calls' \in Seq(Records)
  BY <1>3, OversAreRecords DEF CallsInv
<1>5. ASSUME NEW c \in DOMAIN calls
      PROVE  /\ c \notin K => calls'[c] = calls[c]
             /\ c \in K => calls'[c] = [calls[c] EXCEPT !.state = "over"] /\ calls'[c].state = "over"
  <2>1. \A r \in Records : [r EXCEPT !.state = "over"].state = "over"
    BY DEF Records
  <2> HIDE DEF Records, K
  <2> QED
    BY <1>1, <1>3, <2>1
<1>6. \A c \in W : c \in DOMAIN calls /\ calls[c].script = s /\ calls[c].under = 0 /\ c # 0
  BY <1>1 DEF CallsInv, WaitsOk
<1>7. ASSUME NEW c \in DOMAIN calls, calls'[c].state # "over"
      PROVE  c \notin W /\ calls[c].under \notin W /\ calls[c].state = "open"
  BY <1>1, <1>5, <1>7 DEF Open
<1> HIDE DEF Records
<1>8. ASSUME NEW c \in DOMAIN calls, calls'[c].state # "over", calls[c].under > 0
      PROVE  calls'[calls[c].under].state = "open"
             /\ scripts'[calls[c].script].waits = scripts[calls[c].script].waits
  <2> DEFINE u == calls[c].under
             t == calls[c].script
  <2>1. u \in scripts[t].waits /\ calls[u].state = "open"
    BY <1>7, <1>8 DEF CallsInv, NestedEnd, Open
  <2>2. t \in Scripts /\ t # s
    BY <1>1, <1>7, <1>8, <2>1
  <2>3. u \in DOMAIN calls /\ calls[u].under = 0
    BY <2>1, <2>2 DEF CallsInv, WaitsOk
  <2>4. u \notin W
    BY <1>7, <1>8
  <2>5. calls[u].under \notin W
    BY <1>6, <2>3
  <2>6. u \notin K
    BY <2>4, <2>5
  <2>7. calls'[u] = calls[u]
    BY <1>5, <2>3, <2>6
  <2> QED
    BY <2>1, <2>2, <2>7
<1>9. ASSUME NEW c \in DOMAIN calls, calls'[c].state # "over",
             c \in scripts[calls[c].script].waits
      PROVE  scripts'[calls[c].script].waits = scripts[calls[c].script].waits
  <2>1. calls[c].script # s
    BY <1>7, <1>9
  <2> QED
    BY <1>1, <2>1
<1>10. \A c \in DOMAIN calls : calls[c].under > 0 \/ calls[c].under = 0
  BY <1>1
<1>11. \A t \in Scripts : scripts'[t].waits \in {scripts[t].waits, {}}
  OBVIOUS
<1>12. \A c \in DOMAIN calls : calls'[c] = calls[c] \/ calls'[c] = [calls[c] EXCEPT !.state = "over"]
  BY <1>5
<1> HIDE DEF K, W
<1> QED
  BY <1>4, <1>8, <1>9, <1>10, <1>11, <1>12, OversKeep

\* A call passes a gate that has room.
LEMMA PassesKeeps ==
    ASSUME CallsInv, scripts' = scripts, NEW c \in DOMAIN calls, Passes(c) PROVE CallsInv'
<1> DEFINE r == calls[c]
           q == [r EXCEPT !.passed = r.passed + 1]
<1>1. /\ Len(calls) \in Nat /\ DOMAIN calls = 1 .. Len(calls) /\ calls \in Seq(Records)
      /\ calls \in [1 .. Len(calls) -> Records]
      /\ \A d \in DOMAIN calls : calls[d] \in Records /\ Fitting(calls[d])
  BY CallsAre, LenProperties DEF CallsInv, CallsOk
<1>2. Open(c) /\ r.passed < Len(r.gates) /\ r.passed \in Nat /\ GatesAre(r.script, r.gates)
  BY CallsAre DEF Passes, Waiting, CallsInv
<1>3. r.gates # <<>> /\ Len(r.gates) = 1 /\ r.gates[1] \in Gates /\ r.passed = 0
  <2>1. r.gates # <<>>
    <3>1. Len(<<>>) = 0
      OBVIOUS
    <3> QED
      BY <1>2, <3>1
  <2>2. Len(r.gates) = 1 /\ r.gates[1] \in Gates
    BY <1>2, <2>1, GateIs
  <2> QED
    BY <1>2, <2>1, <2>2
<1> DEFINE gate == r.gates[1]
<1>4. Cardinality(Holders(gate)) < gate[3]
  <2>1. NextGate(c) = gate
    BY <1>3 DEF NextGate
  <2> QED
    BY <2>1 DEF Passes
<1>5. /\ q \in Records /\ q.script = r.script /\ q.kind = r.kind /\ q.gates = r.gates
      /\ q.passed = 1 /\ q.state = r.state /\ q.under = r.under /\ q.awaited = r.awaited
  <2>1. \A x \in Records :
            LET y == [x EXCEPT !.passed = x.passed + 1]
            IN  /\ y \in Records /\ y.script = x.script /\ y.kind = x.kind /\ y.gates = x.gates
                /\ y.passed = x.passed + 1 /\ y.state = x.state /\ y.under = x.under
                /\ y.awaited = x.awaited
    BY DEF Records
  <2> HIDE DEF Records
  <2>2. r \in Records /\ r.passed + 1 = 1
    BY <1>1, <1>3
  <2> QED
    BY <2>1, <2>2
<1>6. calls' = [calls EXCEPT ![c] = q]
  BY <1>1 DEF Passes
<1> HIDE DEF Records, q, r
<1>7. /\ DOMAIN calls' = DOMAIN calls /\ calls'[c] = q
      /\ \A d \in DOMAIN calls : d # c => calls'[d] = calls[d]
      /\ calls' \in [1 .. Len(calls) -> Records]
  BY <1>1, <1>5, <1>6
<1>8. calls' \in Seq(Records)
  BY <1>1, <1>7, SeqDef
<1>9. \A d \in DOMAIN calls :
          /\ calls'[d].script = calls[d].script /\ calls'[d].kind = calls[d].kind
          /\ calls'[d].gates = calls[d].gates /\ calls'[d].state = calls[d].state
          /\ calls'[d].under = calls[d].under /\ calls'[d].awaited = calls[d].awaited
  BY <1>5, <1>7 DEF r
<1>10. CallsOk'
  <2>1. Fitting(r)
    BY <1>1 DEF r
  <2>2. Fitting(q)
    BY <1>3, <1>5, <2>1 DEF Fitting
  <2> QED
    BY <1>1, <1>7, <1>8, <2>2 DEF CallsOk
<1>11. NestedOk' /\ WaitsOk' /\ BatchesAwaited' /\ OneBatch' /\ NestedEnd'
  <2>1. NestedOk'
    BY <1>7, <1>9 DEF CallsInv, NestedOk, Limited
  <2>2. WaitsOk'
    BY <1>7, <1>9 DEF CallsInv, WaitsOk
  <2>3. BatchesAwaited'
    BY <1>7, <1>9 DEF CallsInv, BatchesAwaited, Open, Limited
  <2>4. OneBatch'
    BY <1>7, <1>9 DEF CallsInv, WaitsOk, OneBatch, Limited
  <2>5. NestedEnd'
    BY <1>7, <1>9 DEF CallsInv, NestedOk, NestedEnd, Open
  <2> QED
    BY <2>1, <2>2, <2>3, <2>4, <2>5
<1>12. SemaphoresHeld'
  <2> SUFFICES ASSUME NEW g \in Gates
               PROVE  IsFiniteSet(Holders(g)') /\ Cardinality(Holders(g)') <= g[3]
    BY DEF SemaphoresHeld
  <2> DEFINE before == Holders(g)
             after == Holders(g)'
             more == before \union {<<c, 1>>}
  <2>1. IsFiniteSet(before) /\ Cardinality(before) <= g[3] /\ g[3] \in Nat
    BY GateCounts DEF CallsInv, SemaphoresHeld
  <2>2. \A h \in after : h \in before \/ (h = <<c, 1>> /\ g = gate)
    <3> SUFFICES ASSUME NEW h \in after PROVE h \in before \/ (h = <<c, 1>> /\ g = gate)
      OBVIOUS
    <3>1. /\ h \in (DOMAIN calls) \X (1 .. 2) /\ calls'[h[1]].state = "open"
          /\ h[2] <= calls'[h[1]].passed /\ calls'[h[1]].gates[h[2]] = g
      BY <1>7 DEF Holders, Open
    <3>2. h[1] \in DOMAIN calls /\ h[2] \in 1 .. 2 /\ h = <<h[1], h[2]>>
      BY <3>1
    <3>3. CASE h[1] = c
      <4>1. h[2] = 1
        BY <1>5, <1>7, <3>1, <3>2, <3>3
      <4>2. calls'[c].gates = r.gates
        BY <1>5, <1>7
      <4> QED
        BY <3>1, <3>2, <3>3, <4>1, <4>2
    <3>4. CASE h[1] # c
      <4>1. calls'[h[1]] = calls[h[1]]
        BY <1>7, <3>2, <3>4
      <4> QED
        BY <3>1, <4>1 DEF Holders, Open
    <3> QED
      BY <3>3, <3>4
  <2>3. CASE g = gate
    <3>1. after \in SUBSET more
      BY <2>2
    <3> HIDE DEF before, after
    <3>2. IsFiniteSet(more) /\ Cardinality(more) <= Cardinality(before) + 1
          /\ Cardinality(before) \in Nat /\ Cardinality(more) \in Nat
      <4>1. IsFiniteSet(more) /\ Cardinality(more) = IF <<c, 1>> \in before THEN Cardinality(before)
                                                     ELSE Cardinality(before) + 1
        BY <2>1, FS_AddElement
      <4>2. Cardinality(before) \in Nat /\ Cardinality(more) \in Nat
        BY <2>1, <4>1, FS_CardinalityType
      <4> HIDE DEF more
      <4> QED
        BY <4>1, <4>2
    <3>3. Cardinality(before) < g[3]
      BY <1>4, <2>3 DEF before
    <3> HIDE DEF more, gate
    <3>4. IsFiniteSet(after) /\ Cardinality(after) <= Cardinality(more) /\ Cardinality(after) \in Nat
      BY <3>1, <3>2, FS_Subset, FS_CardinalityType
    <3> QED
      BY <2>1, <3>2, <3>3, <3>4 DEF after
  <2>4. CASE g # gate
    <3>1. after \in SUBSET before
      BY <2>2, <2>4
    <3> HIDE DEF before, after
    <3>2. IsFiniteSet(after) /\ Cardinality(after) <= Cardinality(before)
          /\ Cardinality(after) \in Nat /\ Cardinality(before) \in Nat
      BY <2>1, <3>1, FS_Subset, FS_CardinalityType
    <3> QED
      BY <2>1, <3>2 DEF after
  <2> QED
    BY <2>3, <2>4
<1> QED
  BY <1>10, <1>11, <1>12 DEF CallsInv

\* One gate.
LEMMA OneGate ==
    ASSUME NEW s \in Scripts, NEW b \in Nat, NEW n \in Nat \ {0}, b = 0 => n \in Cap,
           NEW gates, gates = <<Semaphore(s, b, n)>>
    PROVE  GatesAre(s, gates) /\ gates # <<>> /\ gates[1][2] = b
<1> DEFINE gate == Semaphore(s, b, n)
<1>1. gate \in Gates /\ gate[1] = s /\ gate[2] = b /\ gate[3] = n
  BY DEF Gates, Semaphore
<1> HIDE DEF gate
<1>2. gates \in Seq(Gates) /\ Len(gates) = 1 /\ gates[1] = gate /\ gates # <<>>
  <2>1. gates = <<gate>>
    BY DEF gate
  <2> HIDE DEF Gates
  <2> QED
    BY <1>1, <2>1
<1> QED
  BY <1>1, <1>2 DEF GatesAre

LEMMA NoGate ==
    ASSUME NEW s PROVE GatesAre(s, <<>>)
BY EmptySeq DEF GatesAre

LEMMA CapGateIs ==
    ASSUME NEW s \in Scripts
    PROVE  /\ GatesAre(s, CapGate(s)) /\ (Cap # {} => CapGate(s) # <<>>)
           /\ ~(CapGate(s) # <<>> /\ CapGate(s)[1][2] > 0)
<1>1. CASE Cap = {}
  <2>1. CapGate(s) = <<>>
    BY <1>1 DEF CapGate
  <2> QED
    BY <1>1, <2>1, NoGate
<1>2. CASE Cap # {}
  <2> DEFINE n == CHOOSE n \in Cap : TRUE
  <2>1. n \in Cap /\ n \in Nat \ {0}
    BY <1>2, CodeModeAssumption
  <2>2. CapGate(s) = <<Semaphore(s, 0, n)>>
    BY <1>2 DEF CapGate
  <2> HIDE DEF n
  <2>3. GatesAre(s, CapGate(s)) /\ CapGate(s) # <<>> /\ CapGate(s)[1][2] = 0
    BY <2>1, <2>2, OneGate
  <2> QED
    BY <2>3
<1> QED
  BY <1>1, <1>2

LEMMA GatesOfIs ==
    ASSUME NEW s \in Scripts, NEW b \in Nat, b > 0, NEW limit \in Limit
    PROVE  /\ GatesAre(s, GatesOf(s, b, limit)) /\ (Cap # {} => GatesOf(s, b, limit) # <<>>)
           /\ limit # {} => GatesOf(s, b, limit)[1][2] > 0
<1>1. CASE limit = {}
  BY <1>1, CapGateIs DEF GatesOf
<1>2. CASE limit # {}
  <2> DEFINE n == CHOOSE n \in limit : TRUE
  <2>1. n \in Nat \ {0}
    BY <1>2, CodeModeAssumption DEF Limit
  <2>2. GatesOf(s, b, limit) = <<Semaphore(s, b, n)>>
    BY <1>2 DEF GatesOf
  <2> HIDE DEF n
  <2>3. /\ GatesAre(s, GatesOf(s, b, limit)) /\ GatesOf(s, b, limit) # <<>>
        /\ GatesOf(s, b, limit)[1][2] = b
    BY <2>1, <2>2, OneGate
  <2> QED
    BY <2>3
<1> QED
  BY <1>1, <1>2

\* What is to hold of a new call, and what does then.
NewMay(kind, gates, under, awaited) ==
    /\ kind \in {"tool", "inner"}
    /\ kind = "inner" => under = 0 /\ (gates # <<>> => gates[1][2] > 0)
    /\ kind = "tool" /\ under = 0 /\ Cap # {} => gates # <<>>
    /\ kind = "inner" \/ (gates # <<>> /\ gates[1][2] > 0) => awaited
NewIs(r, s, gates, under) ==
    /\ r \in Records /\ Fitting(r) /\ r.passed = 0 /\ r.script = s
    /\ r.gates = gates /\ r.under = under

LEMMA NewCallIs ==
    ASSUME NEW s \in Scripts, NEW kind, NEW gates, GatesAre(s, gates), NEW under \in Nat,
           NEW awaited \in BOOLEAN, NewMay(kind, gates, under, awaited),
           NEW r, r = NewCall(s, kind, gates, under, awaited)
    PROVE  NewIs(r, s, gates, under) /\ r.awaited = awaited
<1>1. gates \in Seq(Gates) /\ Len(gates) \in Nat
  BY DEF GatesAre
<1>2. r.awaited = awaited
  BY DEF NewCall
<1>3. /\ r \in Records /\ r.passed = 0 /\ r.script = s /\ r.kind = kind
      /\ r.gates = gates /\ r.under = under
  BY <1>1 DEF NewCall, Records, NewMay
<1>4. Fitting(r)
  <2>1. r.kind = "inner" \/ (r.gates # <<>> /\ r.gates[1][2] > 0) => r.awaited
    BY <1>2, <1>3 DEF NewMay
  <2>2. /\ GatesAre(r.script, r.gates) /\ r.passed <= Len(r.gates)
        /\ r.kind = "inner" => r.under = 0 /\ (r.gates # <<>> => r.gates[1][2] > 0)
        /\ r.kind = "tool" /\ r.under = 0 /\ Cap # {} => r.gates # <<>>
    BY <1>1, <1>3 DEF NewMay
  <2> QED
    BY <2>1, <2>2 DEF Fitting
<1> QED
  BY <1>2, <1>3, <1>4 DEF NewIs

LEMMA OneNew ==
    ASSUME NEW r \in Records, Fitting(r), r.passed = 0
    PROVE  NewOnes(<<r>>) /\ Len(<<r>>) = 1 /\ \A i \in 1 .. Len(<<r>>) : <<r>>[i] = r
<1> HIDE DEF Records
<1>1. <<r>> \in Seq(Records) /\ Len(<<r>>) = 1 /\ \A i \in 1 .. Len(<<r>>) : <<r>>[i] = r
  OBVIOUS
<1> QED
  BY <1>1 DEF NewOnes

LEMMA TwoNew ==
    ASSUME NEW r \in Records, Fitting(r), r.passed = 0, NEW q \in Records, Fitting(q), q.passed = 0
    PROVE  /\ NewOnes(<<r, q>>) /\ Len(<<r, q>>) = 2
           /\ \A i \in 1 .. Len(<<r, q>>) : <<r, q>>[i] = r \/ <<r, q>>[i] = q
<1> HIDE DEF Records
<1>1. <<r, q>> \in Seq(Records) /\ Len(<<r, q>>) = 2
      /\ \A i \in 1 .. Len(<<r, q>>) : <<r, q>>[i] = r \/ <<r, q>>[i] = q
  OBVIOUS
<1>2. \A i \in 1 .. Len(<<r, q>>) : Fitting(<<r, q>>[i]) /\ <<r, q>>[i].passed = 0
  BY <1>1
<1> QED
  BY <1>1, <1>2 DEF NewOnes

\* The steps of a script that call something.
LEMMA AwaitsCallKeeps ==
    ASSUME CallsInv, ScriptsOk, NEW s \in Scripts, AwaitsCall(s) PROVE CallsInv'
<1> DEFINE zero == 0
           yes == TRUE
<1>0. zero \in Nat /\ zero = 0 /\ yes \in BOOLEAN /\ yes = TRUE
  OBVIOUS
<1> HIDE DEF zero, yes
<1> DEFINE r == NewCall(s, "tool", CapGate(s), zero, yes)
           new == <<r>>
<1>1. r \in Records /\ Fitting(r) /\ r.passed = 0 /\ r.script = s /\ r.under = 0
  <2>1. GatesAre(s, CapGate(s)) /\ NewMay("tool", CapGate(s), zero, yes)
    BY <1>0, CapGateIs DEF NewMay
  <2>2. NewIs(r, s, CapGate(s), zero)
    BY <1>0, <2>1, NewCallIs
  <2> QED
    BY <1>0, <2>2 DEF NewIs
<1>2. At(s, "running") /\ Awaits(s, new)
  BY <1>0 DEF AwaitsCall
<1> HIDE DEF r, Records
<1>3. NewOnes(new) /\ \A i \in 1 .. Len(new) : new[i] = r
  BY <1>1, OneNew
<1> HIDE DEF new
<1>4. Goes(s, "awaiting", Len(calls) + 1 .. Len(calls) + Len(new), "none")
  BY <1>2, AwaitsGoes
<1>5. calls' = calls \o new /\ scripts[s].waits = {}
  BY <1>2, ScriptHas DEF Awaits, At
<1>6. \A i \in 1 .. Len(new) : new[i].script = s /\ new[i].under = 0
  BY <1>1, <1>3
<1>7. \A i, j \in 1 .. Len(new) :
          new[i].gates # <<>> /\ new[j].gates # <<>> => new[i].gates = new[j].gates
  BY <1>3
<1> QED
  BY <1>3, <1>4, <1>5, <1>6, <1>7, AwaitsKeeps

LEMMA AwaitsBatchKeeps ==
    ASSUME CallsInv, ScriptsOk, NEW s \in Scripts, NEW limit \in Limit,
           NEW second \in {"tool", "inner"}, AwaitsBatch(s, limit, second)
    PROVE  CallsInv'
<1> DEFINE zero == 0
           yes == TRUE
<1>0. zero \in Nat /\ zero = 0 /\ yes \in BOOLEAN /\ yes = TRUE
  OBVIOUS
<1> HIDE DEF zero, yes
<1> DEFINE gates == GatesOf(s, Len(calls) + 1, limit)
           inner == IF limit = {} THEN <<>> ELSE gates
           others == IF second = "tool" THEN gates ELSE inner
           r == NewCall(s, "tool", gates, zero, yes)
           q == NewCall(s, second, others, zero, yes)
           new == <<r, q>>
<1>1. At(s, "running") /\ Awaits(s, new)
  BY <1>0 DEF AwaitsBatch
<1>2. Len(calls) + 1 \in Nat /\ Len(calls) + 1 > 0
  <2>1. Len(calls) \in Nat
    BY CallsAre DEF CallsInv
  <2> QED
    BY <2>1
<1>3. GatesAre(s, gates) /\ (Cap # {} => gates # <<>>) /\ (limit # {} => gates[1][2] > 0)
  BY <1>2, GatesOfIs
<1>4. /\ GatesAre(s, others) /\ (second = "tool" => others = gates) /\ others \in {gates, <<>>}
      /\ second = "inner" => (others # <<>> => others[1][2] > 0)
  BY <1>3, NoGate
<1> HIDE DEF gates, inner, others
<1>5. r \in Records /\ Fitting(r) /\ r.passed = 0 /\ r.script = s /\ r.under = 0 /\ r.gates = gates
  <2>1. NewMay("tool", gates, zero, yes)
    BY <1>0, <1>3 DEF NewMay
  <2>2. NewIs(r, s, gates, zero)
    BY <1>0, <1>3, <2>1, NewCallIs
  <2> QED
    BY <1>0, <2>2 DEF NewIs
<1>6. q \in Records /\ Fitting(q) /\ q.passed = 0 /\ q.script = s /\ q.under = 0
      /\ q.gates = others
  <2>1. NewMay(second, others, zero, yes)
    BY <1>0, <1>3, <1>4 DEF NewMay
  <2>2. NewIs(q, s, others, zero)
    BY <1>0, <1>4, <2>1, NewCallIs
  <2> QED
    BY <1>0, <2>2 DEF NewIs
<1> HIDE DEF r, q, Records
<1>7. NewOnes(new) /\ \A i \in 1 .. Len(new) : new[i] = r \/ new[i] = q
  BY <1>5, <1>6, TwoNew
<1> HIDE DEF new
<1>8. Goes(s, "awaiting", Len(calls) + 1 .. Len(calls) + Len(new), "none")
  BY <1>1, AwaitsGoes
<1>9. calls' = calls \o new /\ scripts[s].waits = {}
  BY <1>1, ScriptHas DEF Awaits, At
<1>10. \A i \in 1 .. Len(new) : new[i].script = s /\ new[i].under = 0
                                /\ new[i].gates \in {gates, <<>>}
  BY <1>4, <1>5, <1>6, <1>7
<1>11. \A i, j \in 1 .. Len(new) :
           new[i].gates # <<>> /\ new[j].gates # <<>> => new[i].gates = new[j].gates
  BY <1>10
<1> QED
  BY <1>7, <1>8, <1>9, <1>10, <1>11, AwaitsKeeps

LEMMA SpawnsKeeps ==
    ASSUME CallsInv, NEW s \in Scripts, Spawns(s) PROVE CallsInv'
<1> DEFINE zero == 0
           yes == FALSE
<1>0. zero \in Nat /\ zero = 0 /\ yes \in BOOLEAN /\ yes = FALSE
  OBVIOUS
<1> HIDE DEF zero, yes
<1> DEFINE r == NewCall(s, "tool", CapGate(s), zero, yes)
           new == <<r>>
<1>1. r \in Records /\ Fitting(r) /\ r.passed = 0 /\ r.under = 0 /\ ~r.awaited
  <2>1. GatesAre(s, CapGate(s)) /\ NewMay("tool", CapGate(s), zero, yes)
    BY <1>0, CapGateIs DEF NewMay
  <2>2. NewIs(r, s, CapGate(s), zero) /\ r.awaited = yes
    BY <1>0, <2>1, NewCallIs
  <2> QED
    BY <1>0, <2>2 DEF NewIs
<1>2. calls' = Append(calls, r) /\ scripts' = scripts /\ calls \in Seq(Records)
  BY <1>0 DEF Spawns, CallsInv, CallsOk
<1> HIDE DEF r, Records
<1>3. NewOnes(new) /\ \A i \in 1 .. Len(new) : new[i] = r
  BY <1>1, OneNew
<1>4. calls' = calls \o new
  BY <1>1, <1>2, AppendIsConcat
<1> HIDE DEF new
<1> QED
  BY <1>1, <1>2, <1>3, <1>4, UnawaitedKeeps

\* A batch in a batch makes its calls.
LEMMA UnfoldsKeeps ==
    ASSUME CallsInv, NEW c \in DOMAIN calls, Unfolds(c) PROVE CallsInv'
<1> DEFINE s == calls[c].script
           gates == IF calls[c].gates = <<>> THEN CapGate(s) ELSE <<>>
           yes == TRUE
           r == NewCall(s, "tool", gates, c, yes)
           new == <<r, r>>
<1>0. yes \in BOOLEAN /\ yes = TRUE
  OBVIOUS
<1>1. c \in Nat /\ c > 0 /\ s \in Scripts
  BY CallsAre DEF CallsInv
<1>2. Open(c) /\ calls[c].kind = "inner"
  BY DEF Unfolds, Folded
<1>3. calls[c].under = 0 /\ calls[c].awaited /\ (calls[c].gates # <<>> => LimitedRec(calls[c]))
  BY <1>2, CallsAre DEF CallsInv, Fitting, LimitedRec
<1>4. c \in scripts[s].waits
  BY <1>2, <1>3 DEF CallsInv, BatchesAwaited
<1>5. calls' = calls \o new /\ scripts' = scripts
  BY DEF Unfolds
<1>6. /\ GatesAre(s, gates) /\ ~(gates # <<>> /\ gates[1][2] > 0)
      /\ Cap # {} /\ ~LimitedRec(calls[c]) => gates # <<>>
  BY <1>1, <1>3, CapGateIs, NoGate
<1>9. s = calls[c].script
  OBVIOUS
<1> HIDE DEF gates, s, yes
<1>7. /\ r \in Records /\ Fitting(r) /\ r.passed = 0 /\ r.script = s /\ r.under = c
      /\ r.gates = gates
  <2>1. c # 0 /\ c \in Nat /\ NewMay("tool", gates, c, yes)
    BY <1>0, <1>1, <1>6 DEF NewMay
  <2>2. NewIs(r, s, gates, c)
    BY <1>0, <1>1, <1>6, <2>1, NewCallIs
  <2> QED
    BY <2>2 DEF NewIs
<1>10. ~LimitedRec(r) /\ (Cap # {} /\ ~LimitedRec(calls[c]) => r.gates # <<>>)
  BY <1>6, <1>7 DEF LimitedRec
<1> HIDE DEF r, Records
<1>8. NewOnes(new) /\ \A i \in 1 .. Len(new) : new[i] = r
  BY <1>7, TwoNew
<1> HIDE DEF new
<1> QED
  BY <1>1, <1>2, <1>4, <1>5, <1>7, <1>8, <1>9, <1>10, UnawaitedKeeps

LEMMA CallsInit ==
    ASSUME Init PROVE CallsInv
<1>1. calls = <<>> /\ DOMAIN calls = {} /\ calls \in Seq(Records)
  BY EmptySeq DEF Init
<1>2. \A s \in Scripts : scripts[s].waits = {}
  BY DEF Init, Idle
<1>3. \A gate \in Gates : IsFiniteSet(Holders(gate)) /\ Cardinality(Holders(gate)) <= gate[3]
  <2> TAKE gate \in Gates
  <2>1. Holders(gate) = {}
    BY <1>1 DEF Holders
  <2>2. gate[3] \in Nat
    BY GateCounts
  <2> QED
    BY <2>1, <2>2, FS_EmptySet
<1> HIDE DEF Records
<1> QED
  BY <1>1, <1>2, <1>3
     DEF CallsInv, CallsOk, NestedOk, WaitsOk, BatchesAwaited, OneBatch, SemaphoresHeld, NestedEnd

\* A step that leaves the calls and what is awaited.
LEMMA GoesLeaves ==
    ASSUME CallsInv, NEW s \in Scripts, scripts[s].waits = {}, calls' = calls,
           NEW phase, NEW result, Goes(s, phase, {}, result)
    PROVE  CallsInv'
BY WaitsLeft DEF Goes

LEMMA ScriptKeepsCalls ==
    ASSUME CallsInv, StoreInv, NEW s \in Scripts, ScriptStep(s) \/ Resumes(s)
    PROVE  CallsInv'
<1>0. scripts[s].phase # "awaiting" => scripts[s].waits = {}
  BY ScriptHas DEF StoreInv
<1>1. CASE Begin(s)
  BY <1>0, <1>1, BeginGoes, GoesLeaves DEF StoreInv, Begin, At
<1>2. CASE \E key \in Keys, size \in Sizes \union {Deleted} : Store(s, key, size)
  <2>1. PICK key \in Keys, size \in Nat : Store(s, key, size)
    BY <1>2, CodeModeAssumption DEF Deleted
  <2> QED
    BY <1>0, <2>1, StoreGoes, GoesLeaves DEF StoreInv, Store, At
<1>3. CASE AwaitsCall(s) \/ \E limit \in Limit, second \in {"tool", "inner"} :
                                AwaitsBatch(s, limit, second)
  BY <1>3, AwaitsCallKeeps, AwaitsBatchKeeps DEF StoreInv
<1>4. CASE Spawns(s)
  BY <1>4, SpawnsKeeps
<1>5. CASE \E key \in Keys : Appends(s, key)
  BY <1>0, <1>5, AppendsGoes, GoesLeaves DEF StoreInv, Appends, At
<1>6. CASE Returns(s) \/ Raises(s)
  <2>1. PICK ok \in BOOLEAN : At(s, "running") /\ Commit(s, ok) /\ calls' = calls
    BY <1>6 DEF Returns, Raises
  <2>2. PICK result \in {"ok", "failed"} : Goes(s, "over", {}, result)
    BY <2>1, CommitKeeps
  <2> QED
    BY <1>0, <2>1, <2>2, GoesLeaves DEF At
<1>7. CASE Stopped(s)
  <2>1. scripts[s].phase \in {"running", "awaiting"} /\ Halt(s)
    BY <1>7 DEF Stopped
  <2>2. CASE Over(s, "stopped")
    <3>1. Goes(s, "over", {}, "stopped")
      BY <2>1, <2>2, EndsGoes DEF StoreInv, Over
    <3> QED
      BY <2>1, <3>1, HaltKeeps DEF Goes
  <2>3. CASE scripts' = [scripts EXCEPT ![s].phase = "running", ![s].waits = {}]
    <3>1. Goes(s, "running", {}, "none")
      BY <2>1, <2>3, ResumesGoes DEF StoreInv
    <3> QED
      BY <2>1, <3>1, HaltKeeps DEF Goes
  <2> QED
    BY <1>7, <2>2, <2>3 DEF Stopped
<1>8. CASE Resumes(s)
  <2>1. Goes(s, "running", {}, "none")
    BY <1>8, ResumesGoes DEF StoreInv, Resumes, At
  <2>2. calls' = calls /\ \A c \in scripts[s].waits : ~Open(c)
    BY <1>8 DEF Resumes
  <2> QED
    BY <2>1, <2>2, ResumesKeeps DEF Goes
<1> QED
  BY <1>1, <1>2, <1>3, <1>4, <1>5, <1>6, <1>7, <1>8 DEF ScriptStep

LEMMA CallsNext ==
    ASSUME CallsInv, StoreInv, [Next]_vars PROVE CallsInv'
<1>1. CASE Progress
  <2>1. PICK c \in DOMAIN calls : Passes(c) \/ CallEnds(c) \/ Unfolds(c)
    BY <1>1 DEF Progress
  <2>2. CASE Passes(c)
    BY <2>2, PassesKeeps DEF Passes
  <2>3. CASE CallEnds(c)
    BY <2>3, CallEndsKeeps DEF CallEnds
  <2>4. CASE Unfolds(c)
    BY <2>4, UnfoldsKeeps
  <2> QED
    BY <2>1, <2>2, <2>3, <2>4
<1>2. CASE \E s \in Scripts : ScriptStep(s) \/ Resumes(s)
  BY <1>2, ScriptKeepsCalls
<1>3. CASE UNCHANGED vars
  BY <1>3, WaitsLeft DEF vars
<1> QED
  BY <1>1, <1>2, <1>3 DEF Next

LEMMA CallsAlways == Spec => [](StoreInv /\ CallsInv)
<1>1. Init => CallsInv
  BY CallsInit
<1>2. StoreInv /\ CallsInv /\ [Next]_vars => CallsInv'
  BY CallsNext
<1> QED
  BY <1>1, <1>2, StoreAlways, PTL DEF Spec

\* What a script awaits is open only while the script waits for it.
LEMMA AwaitedAreEnded ==
    ASSUME StoreInv, CallsInv PROVE AwaitedEnd
<1> SUFFICES ASSUME NEW c \in DOMAIN calls, calls[c].awaited, Open(c),
                    NEW s, s = calls[c].script
             PROVE  At(s, "awaiting") /\ Root(c) \in scripts[s].waits /\ Open(Root(c))
  BY DEF AwaitedEnd
<1>1. s \in Scripts /\ calls[c].under \in Nat
  BY CallsAre DEF CallsInv
<1>2. Root(c) \in scripts[s].waits /\ Open(Root(c))
  <2>1. CASE calls[c].under = 0
    BY <2>1 DEF CallsInv, BatchesAwaited, Root
  <2>2. CASE calls[c].under > 0
    BY <2>2 DEF CallsInv, NestedEnd, Root
  <2> QED
    BY <1>1, <2>1, <2>2
<1>3. scripts[s].phase = "awaiting"
  BY <1>1, <1>2, ScriptHas DEF StoreInv
<1> QED
  BY <1>2, <1>3 DEF At

\* Whatever is awaited, left to itself, nested, timed out or cancelled: of a
\* script's tool calls no more run than the cap, the calls of a batch inside a
\* batch among them, and no more of the one limited batch than its limit; and a
\* call or a batch that the script awaits, or a call of a batch inside that, is
\* open only while the script waits for it.  toolbox.py:147-159 takes the cap
\* unless the context says that a limited batch is under way, result.py:225-241
\* the batch's, and an await that is cancelled cancels what it waits for.
THEOREM CallsAlwaysContained == Spec => []CallsContained
<1>1. StoreInv /\ CallsInv => CallsContained
  BY HeldIsCapped, AwaitedAreEnded DEF CallsContained
<1> QED
  BY <1>1, CallsAlways, PTL

\* What is stored under a key was put there by a script that ended well, or by
\* an earlier session: the overlay of a script that fails, is timed out or
\* cancelled leaves nothing, whatever scripts run beside it (store.py's commit).
THEOREM FinishedAlwaysStored == Spec => []OnlyFinishedStored
<1>1. StoreInv /\ CallsInv => OnlyFinishedStored
  <2> SUFFICES ASSUME StoreInv, CallsInv PROVE OnlyFinishedStored
    OBVIOUS
  <2>1. \A k \in DOMAIN backing : backing[k] > 0
    BY DEF StoreInv, StoreOk
  <2>2. \A s \in Scripts :
            /\ scripts[s].phase \in {"idle", "running", "awaiting", "over"}
            /\ (scripts[s].phase = "over") = (scripts[s].result # "none")
            /\ scripts[s].waits # {} => At(s, "awaiting")
    BY ScriptHas DEF StoreInv, At
  <2>3. \A c \in DOMAIN calls : calls[c].passed <= Len(calls[c].gates)
    BY CallsAre DEF CallsInv, Fitting
  <2>4. TypeOK
    BY <2>1, <2>2, <2>3 DEF TypeOK, StoreInv, StoreOk
  <2> QED
    BY <2>4 DEF OnlyFinishedStored, StoreInv, FinishedStored
<1> QED
  BY <1>1, CallsAlways, PTL
=============================================================================
