--------------------------- MODULE ToolCallsProofs ---------------------------
(***************************************************************************)
(* Proofs about ToolCalls, for every set of tools, every number of turns and  *)
(* calls: what the registry offers, the identities of calls, what those who   *)
(* follow a run's events have of it, that every call is answered, and that    *)
(* the screen shows what was published.                                      *)
(***************************************************************************)
EXTENDS ToolCalls, FiniteSetTheorems, SequenceTheorems, TLAPS

-----------------------------------------------------------------------------
(* The registry                                                            *)

\* A registry, and what its cache holds: nothing, or what is visible now.
IsRegistry(r) ==
    r = [tools |-> r.tools, disabled |-> r.disabled, cache |-> r.cache, frozen |-> r.frozen]
CacheOk(r) == r.cache = None \/ r.cache = {LiveSchemas(r, "model")}

LEMMA RegisterKeeps ==
    ASSUME NEW r, IsRegistry(r), NEW tool
    PROVE  /\ IsRegistry(Register(r, tool)) /\ Register(r, tool).frozen = r.frozen
           /\ Register(r, tool).cache = None
<1> DEFINE tools == IF Registered(r, tool.name)
                    THEN [i \in DOMAIN r.tools |-> IF r.tools[i].name = tool.name THEN tool
                                                   ELSE r.tools[i]]
                    ELSE Append(r.tools, tool)
           disabled == r.disabled \ {tool.name}
<1>1. Register(r, tool) = [tools |-> tools, disabled |-> disabled, cache |-> None,
                           frozen |-> r.frozen]
  <2>1. Register(r, tool) = [r EXCEPT !.tools = tools, !.disabled = disabled, !.cache = None]
    BY DEF Register, IsRegistry
  <2> HIDE DEF tools, disabled
  <2> QED
    BY <2>1 DEF IsRegistry
<1> HIDE DEF tools, disabled
<1> QED
  BY <1>1 DEF IsRegistry

\* A name that nobody has can be forgotten.
LEMMA UnregisterKeeps ==
    ASSUME NEW r, IsRegistry(r), CacheOk(r), NEW name
    PROVE  /\ IsRegistry(Unregister(r, name)) /\ Unregister(r, name).frozen = r.frozen
           /\ CacheOk(Unregister(r, name))
<1> DEFINE disabled == r.disabled \ {name}
<1>1. CASE Registered(r, name)
  <2> DEFINE tools == ItemsAt(r.tools, {i \in DOMAIN r.tools : r.tools[i].name # name})
  <2>1. Unregister(r, name) = [r EXCEPT !.tools = tools, !.disabled = disabled, !.cache = None]
    BY <1>1 DEF Unregister, IsRegistry
  <2> HIDE DEF tools, disabled
  <2>2. Unregister(r, name) = [tools |-> tools, disabled |-> disabled, cache |-> None,
                               frozen |-> r.frozen]
    BY <2>1 DEF IsRegistry
  <2> QED
    BY <2>2 DEF IsRegistry, CacheOk
<1>2. CASE ~Registered(r, name)
  <2> DEFINE q == Unregister(r, name)
  <2>1. q = [tools |-> r.tools, disabled |-> disabled, cache |-> r.cache, frozen |-> r.frozen]
    BY <1>2 DEF Unregister, IsRegistry
  <2>2. q.tools = r.tools /\ q.disabled = disabled /\ q.cache = r.cache /\ q.frozen = r.frozen
        /\ IsRegistry(q)
    BY <2>1 DEF IsRegistry
  <2> HIDE DEF q
  <2>3. {i \in DOMAIN q.tools : Visible(q, q.tools[i], "model")}
        = {i \in DOMAIN r.tools : Visible(r, r.tools[i], "model")}
    <3>1. \A i \in DOMAIN r.tools : r.tools[i].name # name
      BY <1>2 DEF Registered, NamesOf
    <3>2. \A i \in DOMAIN r.tools :
              Visible(q, r.tools[i], "model") <=> Visible(r, r.tools[i], "model")
      BY <2>2, <3>1 DEF Visible
    <3> QED
      BY <2>2, <3>2
  <2>4. LiveSchemas(q, "model") = LiveSchemas(r, "model")
    BY <2>2, <2>3 DEF LiveSchemas
  <2> QED
    BY <2>2, <2>4 DEF CacheOk, q
<1> QED
  BY <1>1, <1>2

LEMMA EnableKeeps ==
    ASSUME NEW r, IsRegistry(r), NEW name
    PROVE  /\ IsRegistry(Enable(r, name)) /\ Enable(r, name).frozen = r.frozen
           /\ Enable(r, name).cache = None
<1> DEFINE disabled == r.disabled \ {name}
<1>0. Enable(r, name) = [r EXCEPT !.disabled = disabled, !.cache = None]
  BY DEF Enable, IsRegistry
<1> HIDE DEF disabled
<1>1. Enable(r, name) = [tools |-> r.tools, disabled |-> disabled, cache |-> None,
                         frozen |-> r.frozen]
  BY <1>0 DEF IsRegistry
<1> QED
  BY <1>1 DEF IsRegistry

LEMMA DisableKeeps ==
    ASSUME NEW r, IsRegistry(r), CacheOk(r), NEW name
    PROVE  /\ IsRegistry(Disable(r, name)) /\ Disable(r, name).frozen = r.frozen
           /\ CacheOk(Disable(r, name))
<1>1. CASE Registered(r, name)
  <2> DEFINE disabled == r.disabled \union {name}
  <2>1. Disable(r, name) = [tools |-> r.tools, disabled |-> disabled, cache |-> None,
                            frozen |-> r.frozen]
    BY <1>1 DEF Disable, IsRegistry
  <2> HIDE DEF disabled
  <2> QED
    BY <2>1 DEF IsRegistry, CacheOk
<1>2. CASE ~Registered(r, name)
  BY <1>2 DEF Disable
<1> QED
  BY <1>1, <1>2

\* Fields the schemas do not depend on.
LEMMA LiveSame ==
    ASSUME NEW r, NEW q, q.tools = r.tools, q.disabled = r.disabled
    PROVE  LiveSchemas(q, "model") = LiveSchemas(r, "model")
BY DEF LiveSchemas, Visible

LEMMA FreezeKeeps ==
    ASSUME NEW r, IsRegistry(r), CacheOk(r)
    PROVE  /\ IsRegistry(Freeze(r)) /\ Freeze(r).frozen = {LiveSchemas(r, "model")}
           /\ CacheOk(Freeze(r))
<1> DEFINE live == LiveSchemas(r, "model")
           q == Freeze(r)
<1>1. q = [r EXCEPT !.frozen = {live}]
  BY DEF Freeze
<1> HIDE DEF live, q
<1>2. q.tools = r.tools /\ q.disabled = r.disabled /\ q.cache = r.cache /\ q.frozen = {live}
      /\ IsRegistry(q)
  BY <1>1 DEF IsRegistry
<1>3. LiveSchemas(q, "model") = live
  BY <1>2, LiveSame DEF live
<1>4. CacheOk(q)
  BY <1>2, <1>3 DEF CacheOk, live
<1> QED
  BY <1>2, <1>4 DEF q, live

LEMMA ValueOfOne ==
    ASSUME NEW x PROVE Value({x}) = x /\ {x} # None
BY DEF Value, None

\* What is offered live is what is visible.
LEMMA OfferedLive ==
    ASSUME NEW r, CacheOk(r), r.frozen = None
    PROVE  AllSchemas(r) = LiveSchemas(r, "model")
<1> DEFINE live == LiveSchemas(r, "model")
<1>1. Value({live}) = live /\ {live} # None
  BY ValueOfOne
<1> HIDE DEF live
<1>2. CASE r.cache = None
  BY <1>2 DEF AllSchemas
<1>3. CASE r.cache = {live}
  BY <1>1, <1>3 DEF AllSchemas, live
<1> QED
  BY <1>2, <1>3 DEF CacheOk, live

LEMMA AskedKeeps ==
    ASSUME NEW r, IsRegistry(r), CacheOk(r)
    PROVE  IsRegistry(Asked(r)) /\ Asked(r).frozen = r.frozen /\ CacheOk(Asked(r))
<1>1. CASE r.frozen = None
  <2> DEFINE live == LiveSchemas(r, "model")
             q == Asked(r)
  <2>1. AllSchemas(r) = live
    BY <1>1, OfferedLive
  <2>2. q = [r EXCEPT !.cache = {live}]
    BY <1>1, <2>1 DEF Asked
  <2> HIDE DEF live, q
  <2>3. q.tools = r.tools /\ q.disabled = r.disabled /\ q.cache = {live} /\ q.frozen = r.frozen
        /\ IsRegistry(q)
    BY <2>2 DEF IsRegistry
  <2>4. LiveSchemas(q, "model") = live
    BY <2>3, LiveSame DEF live
  <2> QED
    BY <2>3, <2>4 DEF CacheOk, q
<1>2. CASE r.frozen # None
  BY <1>2 DEF Asked
<1> QED
  BY <1>1, <1>2

\* The registry's invariant: every operation that changes what is visible
\* drops the cache.
RegistryOk == IsRegistry(registry) /\ CacheOk(registry)

LEMMA RegistryInit ==
    ASSUME Init PROVE RegistryOk
<1>1. PICK built \in Built(Tools) : registry \in {built, Freeze(built)}
  BY DEF Init
<1>2. PICK list : built = [EmptyRegistry EXCEPT !.tools = list]
  BY DEF Built
<1>3. built = [tools |-> list, disabled |-> {}, cache |-> None, frozen |-> None]
  BY <1>2 DEF EmptyRegistry
<1>4. IsRegistry(built) /\ CacheOk(built)
  BY <1>3 DEF IsRegistry, CacheOk
<1> QED
  BY <1>1, <1>4, FreezeKeeps DEF RegistryOk

\* The ways the registry changes.
LEMMA RegistryChanges ==
    ASSUME RegistryOk, [Next]_vars
    PROVE  /\ RegistryOk'
           /\ \/ registry'.frozen = registry.frozen
              \/ registry'.frozen = {LiveSchemas(registry, "model")}
<1>1. CASE Switch
  <2>1. CASE \E tool \in Tools : registry' = Disable(registry, tool.name)
    BY <2>1, DisableKeeps DEF RegistryOk
  <2>2. CASE \E tool \in Tools : registry' = Enable(registry, tool.name)
    BY <2>2, EnableKeeps DEF RegistryOk, CacheOk
  <2>3. CASE \E tool \in Tools : registry' = Unregister(registry, tool.name)
    BY <2>3, UnregisterKeeps DEF RegistryOk
  <2>4. CASE \E new : registry' = Register(registry, new)
    BY <2>4, RegisterKeeps DEF RegistryOk, CacheOk
  <2>5. CASE registry' = Freeze(registry)
    BY <2>5, FreezeKeeps DEF RegistryOk
  <2> QED
    BY <1>1, <2>1, <2>2, <2>3, <2>4, <2>5 DEF Switch
<1>2. CASE TurnBegins
  BY <1>2, AskedKeeps DEF TurnBegins, RegistryOk
<1>3. CASE registry' = registry
  BY <1>3 DEF RegistryOk
<1>4. CASE Says \/ Notices \/ CallForms \/ ResponseEnds \/ Replies \/ CancelTurn \/ Fails
  BY <1>3, <1>4 DEF Says, Notices, CallForms, ResponseEnds, Replies, CancelTurn, Fails
<1>5. CASE \E k \in DOMAIN calls : CallStep(k)
  BY <1>3, <1>5
     DEF CallStep, Announce, Outputs, ToolEnds, Completes, CallsNested, ProgramCalls
<1>6. CASE \E tool \in Tools : CallsAlone(tool.name)
  BY <1>3, <1>6 DEF CallsAlone, ProgramCalls
<1>7. CASE UNCHANGED vars
  BY <1>3, <1>7 DEF vars
<1> QED
  BY <1>1, <1>2, <1>4, <1>5, <1>6, <1>7 DEF Next

LEMMA RegistryAlways == Spec => []RegistryOk
<1>1. Init => RegistryOk
  BY RegistryInit
<1>2. RegistryOk /\ [Next]_vars => RegistryOk'
  BY RegistryChanges
<1> QED
  BY <1>1, <1>2, PTL DEF Spec

\* Whatever is registered, removed, switched on or off between the requests, a
\* registry that is not frozen offers what is visible now: tool.py drops the
\* cached schemas wherever they could change.
THEOREM CacheAlwaysTrue == Spec => []CacheTrue
<1>1. RegistryOk => CacheTrue
  BY OfferedLive DEF RegistryOk, CacheTrue
<1> QED
  BY <1>1, RegistryAlways, PTL

\* Cache protection (tool.py's freeze()): once the schemas are frozen, only
\* another freeze changes what a request offers, and to what is visible then.
THEOREM OfferAlwaysHeld == Spec => OfferHeld
<1>1. RegistryOk /\ [Next]_vars
      => [registry.frozen # None =>
             \/ AllSchemas(registry') = AllSchemas(registry)
             \/ registry'.frozen # registry.frozen
                /\ registry'.frozen = {LiveSchemas(registry, "model")}]_vars
  <2> SUFFICES ASSUME RegistryOk, [Next]_vars, registry.frozen # None,
                      registry'.frozen = registry.frozen
               PROVE  AllSchemas(registry') = AllSchemas(registry)
    BY RegistryChanges
  <2> QED
    BY DEF AllSchemas
<1> QED
  BY <1>1, RegistryAlways, PTL DEF Spec, OfferHeld

-----------------------------------------------------------------------------
(* Identities                                                              *)

Tags == {"provider", "call", "pcall"}
Ids == Seq(Tags \union Nat)

\* An identity and its extensions are told apart.
LEMMA ExtendedIds ==
    ASSUME NEW p \in Ids, NEW i \in Nat
    PROVE  /\ Append(p, i) \in Ids /\ Len(Append(p, i)) = Len(p) + 1 /\ Len(p) \in Nat
           /\ \A q \in Ids, j \in Nat : Append(p, i) = Append(q, j) => p = q /\ i = j
<1>1. \A s \in Ids, e \in Nat :
          /\ Append(s, e) \in Ids /\ Len(Append(s, e)) = Len(s) + 1 /\ Len(s) \in Nat
          /\ Append(s, e)[Len(s) + 1] = e
          /\ \A n \in 1 .. Len(s) : Append(s, e)[n] = s[n]
  BY AppendProperties, LenProperties DEF Ids
<1>2. ASSUME NEW q \in Ids, NEW j \in Nat, Append(p, i) = Append(q, j) PROVE p = q /\ i = j
  <2>1. Len(p) = Len(q)
    <3>1. Len(p) + 1 = Len(q) + 1 /\ Len(p) \in Nat /\ Len(q) \in Nat
      BY <1>1, <1>2
    <3> QED
      BY <3>1
  <2> DEFINE a == Append(p, i)
             b == Append(q, j)
             l == Len(p)
  <2>5. a[l + 1] = i /\ \A n \in 1 .. l : a[n] = p[n]
    BY <1>1
  <2>6. b[l + 1] = j /\ \A n \in 1 .. l : b[n] = q[n]
    <3>1. b[Len(q) + 1] = j /\ \A n \in 1 .. Len(q) : b[n] = q[n]
      BY <1>1
    <3> QED
      BY <2>1, <3>1
  <2>7. a = b
    BY <1>2
  <2> HIDE DEF a, b
  <2>2. i = j
    BY <2>5, <2>6, <2>7
  <2>3. \A n \in 1 .. Len(p) : p[n] = q[n]
    BY <2>5, <2>6, <2>7
  <2>4. p = q
    BY <2>1, <2>3, SeqEqual DEF Ids
  <2> QED
    BY <2>2, <2>4
<1> QED
  BY <1>1, <1>2

\* The identities that are not extensions.
Tagged(tag, m) == <<tag, m>>
LEMMA Pair ==
    ASSUME NEW S, NEW a \in S, NEW b \in S PROVE <<a, b>> \in Seq(S) /\ Len(<<a, b>>) = 2
OBVIOUS

LEMMA TaggedIds ==
    ASSUME NEW tag \in Tags, NEW m \in Nat
    PROVE  Tagged(tag, m) \in Ids /\ Len(Tagged(tag, m)) = 2
<1>1. tag \in Tags \union Nat /\ m \in Tags \union Nat
  OBVIOUS
<1> QED
  BY <1>1, Pair DEF Tagged, Ids

LEMMA TaggedApart ==
    ASSUME NEW tag, NEW m, NEW other, NEW n, Tagged(tag, m) = Tagged(other, n)
    PROVE  tag = other /\ m = n
BY DEF Tagged

\* The calls are a list.
IsList(list, n) == n \in Nat /\ list = [k \in 1 .. n |-> list[k]]
LEMMA ListAppend ==
    ASSUME NEW list, NEW n, IsList(list, n), NEW e
    PROVE  /\ Len(list) = n /\ DOMAIN list = 1 .. n
           /\ IsList(Append(list, e), n + 1) /\ Append(list, e)[n + 1] = e
           /\ DOMAIN Append(list, e) = 1 .. n + 1
           /\ \A k \in 1 .. n : Append(list, e)[k] = list[k]
<1> DEFINE S == {list[k] : k \in 1 .. n} \union {e}
<1>1. n \in Nat /\ list \in [1 .. n -> S] /\ e \in S
  BY DEF IsList
<1> HIDE DEF S
<1>2. list \in Seq(S)
  BY <1>1, SeqDef
<1>3. Len(list) = n /\ DOMAIN list = 1 .. n
  BY <1>1, <1>2, LenProperties
<1>4. /\ Append(list, e) \in Seq(S) /\ Len(Append(list, e)) = n + 1
      /\ Append(list, e)[n + 1] = e
      /\ \A k \in 1 .. n : Append(list, e)[k] = list[k]
  BY <1>1, <1>2, <1>3, AppendProperties
<1>5. n + 1 \in Nat /\ Append(list, e) \in [1 .. n + 1 -> S]
  BY <1>1, <1>4, LenProperties
<1> QED
  BY <1>3, <1>4, <1>5 DEF IsList

\* What the dispatcher has minted.
MintOk ==
    /\ minted = [seq |-> minted.seq, nested |-> minted.nested]
    /\ minted.seq \in Nat
    /\ minted.nested = [p \in DOMAIN minted.nested |-> minted.nested[p]]
    /\ \A p \in DOMAIN minted.nested :
           p \in Ids /\ Len(p) >= 2 /\ minted.nested[p] \in Nat

\* An identity of the program's: numbered by the kernel, or its parent's with
\* a number of those the parent has given out.
ProgramId(id, mint) ==
    \/ \E m \in 1 .. mint.seq : id = Tagged("pcall", m)
    \/ \E p \in DOMAIN mint.nested : \E m \in 1 .. mint.nested[p] : id = Append(p, m)
\* An identity of the model's: the endpoint's, which counts the calls of the
\* turn, or numbered by the kernel.
ModelIdOf(id, ids, count, mint) ==
    IF ids THEN \E m \in Nat : id = Tagged("provider", m) /\ m <= count
    ELSE \E m \in 1 .. mint.seq : id = Tagged("call", m)
MadeIn(list, t) == {k \in DOMAIN list : list[k].turn = t /\ list[k].origin = "model"}
IdKnown(list, ids, mint, k) ==
    IF list[k].origin = "model"
    THEN ModelIdOf(list[k].id, ids, Cardinality(MadeIn(list, list[k].turn)), mint)
    ELSE ProgramId(list[k].id, mint)
IsCall(r) ==
    r = [id |-> r.id, origin |-> r.origin, parent |-> r.parent, turn |-> r.turn, tool |-> r.tool,
         phase |-> r.phase, status |-> r.status, ended |-> r.ended]
CallsOk == IsList(calls, Len(calls)) /\ \A k \in DOMAIN calls : IsCall(calls[k])
IdsKnown == \A k \in DOMAIN calls : IdKnown(calls, endpoint.ids, minted, k)
IsTurn(r) == r = [no |-> r.no, phase |-> r.phase, offered |-> r.offered]
TurnOk ==
    /\ IsTurn(turn) /\ turn.no \in Nat
    /\ \A k \in DOMAIN calls : calls[k].turn \in Nat /\ calls[k].turn <= turn.no

\* The inductive invariant: calls are a list, their identities are among those
\* given out, and no two of a turn are the same.
IdInv == CallsOk /\ MintOk /\ TurnOk /\ IdsKnown /\ IdsApart

\* A call stays the call it is, wherever it gets to.
SameCall(p, q) == IsCall(q) /\ q.id = p.id /\ q.origin = p.origin /\ q.turn = p.turn
LEMMA CallFields ==
    ASSUME NEW r, IsCall(r), NEW x
    PROVE  /\ SameCall(r, r)
           /\ SameCall(r, [r EXCEPT !.phase = x])
           /\ SameCall(r, [r EXCEPT !.status = x])
           /\ SameCall(r, [r EXCEPT !.ended = x])
<1>1. SameCall(r, [r EXCEPT !.phase = x])
  BY DEF IsCall, SameCall
<1>2. SameCall(r, [r EXCEPT !.status = x])
  BY DEF IsCall, SameCall
<1>3. SameCall(r, [r EXCEPT !.ended = x])
  BY DEF IsCall, SameCall
<1> QED
  BY <1>1, <1>2, <1>3 DEF SameCall

LEMMA SameCallTwice ==
    ASSUME NEW p, NEW q, NEW r, SameCall(p, q), SameCall(q, r) PROVE SameCall(p, r)
BY DEF SameCall

\* How a call moves on.
LEMMA CallMoves ==
    ASSUME NEW r, IsCall(r), NEW s, NEW phase, NEW after,
           \/ after = [r EXCEPT !.phase = phase]
           \/ after = [[r EXCEPT !.phase = phase] EXCEPT !.status = s]
           \/ after = [[r EXCEPT !.status = s] EXCEPT !.phase = phase]
           \/ after = [[r EXCEPT !.phase = phase] EXCEPT !.ended = s]
    PROVE  SameCall(r, after)
<1> DEFINE moved == [r EXCEPT !.phase = phase]
           judged == [r EXCEPT !.status = s]
<1>1. SameCall(r, moved) /\ SameCall(r, judged)
  BY CallFields
<1>2. IsCall(moved) /\ IsCall(judged)
  BY <1>1 DEF SameCall
<1> HIDE DEF moved, judged
<1>3. \/ after = moved
      \/ after = [moved EXCEPT !.status = s] \/ after = [moved EXCEPT !.ended = s]
      \/ after = [judged EXCEPT !.phase = phase]
  BY DEF moved, judged
<1>4. /\ SameCall(moved, [moved EXCEPT !.status = s])
      /\ SameCall(moved, [moved EXCEPT !.ended = s])
      /\ SameCall(judged, [judged EXCEPT !.phase = phase])
  BY <1>2, CallFields
<1> QED
  BY <1>1, <1>3, <1>4, SameCallTwice

\* The steps that make no call.
LEMMA IdsSame ==
    ASSUME IdInv, minted' = minted, endpoint' = endpoint,
           IsTurn(turn)', turn'.no \in Nat, turn.no <= turn'.no,
           DOMAIN calls' = DOMAIN calls, calls' = [k \in DOMAIN calls |-> calls'[k]],
           \A k \in DOMAIN calls : SameCall(calls[k], calls'[k])
    PROVE  IdInv'
<1> DEFINE n == Len(calls)
<1>1. n \in Nat /\ DOMAIN calls = 1 .. n
  BY DEF IdInv, CallsOk, IsList
<1>2. IsList(calls', n)
  BY <1>1 DEF IsList
<1>3. Len(calls') = n
  BY <1>2, ListAppend
<1>4. CallsOk'
  BY <1>2, <1>3 DEF CallsOk, SameCall
<1>5. \A t : MadeIn(calls', t) = MadeIn(calls, t)
  BY DEF MadeIn, SameCall
<1>6. \A k \in DOMAIN calls :
          /\ calls'[k].id = calls[k].id /\ calls'[k].turn = calls[k].turn
          /\ calls'[k].origin = calls[k].origin
  BY DEF SameCall
<1>7. IdsKnown'
  BY <1>5, <1>6 DEF IdInv, IdsKnown, IdKnown
<1>8. IdsApart'
  BY DEF IdInv, IdsApart, SameCall
<1>9. MintOk' /\ TurnOk'
  <2>1. turn.no \in Nat
    BY DEF IdInv, TurnOk
  <2>2. TurnOk'
    BY <1>6, <2>1 DEF IdInv, TurnOk
  <2> QED
    BY <2>2 DEF IdInv, MintOk
<1> QED
  BY <1>4, <1>7, <1>8, <1>9 DEF IdInv

\* More may be given out; what was given out stays so.
MintsOn(p, q) ==
    /\ p.seq <= q.seq /\ DOMAIN p.nested \subseteq DOMAIN q.nested
    /\ \A id \in DOMAIN p.nested : p.nested[id] <= q.nested[id]

\* The calls of a turn are counted.
LEMMA CountGrows ==
    ASSUME NEW list, NEW n, IsList(list, n), NEW e, NEW t
    PROVE  LET before == Cardinality(MadeIn(list, t))
               after == Cardinality(MadeIn(Append(list, e), t))
           IN  /\ before \in Nat /\ after \in Nat /\ before <= after
               /\ e.turn = t /\ e.origin = "model" => after = before + 1
<1> DEFINE more == Append(list, e)
           B == MadeIn(list, t)
           A == MadeIn(more, t)
<1>1. /\ n \in Nat /\ DOMAIN list = 1 .. n /\ DOMAIN more = 1 .. n + 1 /\ more[n + 1] = e
      /\ \A k \in 1 .. n : more[k] = list[k]
  BY ListAppend DEF IsList
<1> HIDE DEF more
<1>2. B = {k \in 1 .. n : list[k].turn = t /\ list[k].origin = "model"}
      /\ A = {k \in 1 .. n + 1 : more[k].turn = t /\ more[k].origin = "model"}
  BY <1>1 DEF MadeIn
<1>3. IsFiniteSet(1 .. n + 1) /\ A \in SUBSET (1 .. n + 1) /\ B \in SUBSET (1 .. n + 1)
  BY <1>1, <1>2, FS_Interval
<1>4. IsFiniteSet(A) /\ IsFiniteSet(B) /\ Cardinality(A) \in Nat /\ Cardinality(B) \in Nat
  BY <1>3, FS_Subset, FS_CardinalityType
<1>5. B \in SUBSET A /\ n + 1 \notin B
  BY <1>1, <1>2
<1>6. Cardinality(B) <= Cardinality(A)
  BY <1>4, <1>5, FS_Subset
<1>7. ASSUME e.turn = t, e.origin = "model" PROVE Cardinality(A) = Cardinality(B) + 1
  <2>1. A = B \union {n + 1}
    BY <1>1, <1>2, <1>7
  <2> QED
    BY <1>4, <1>5, <2>1, FS_AddElement
<1> QED
  BY <1>4, <1>6, <1>7 DEF more

\* The steps that make a call.
LEMMA IdsNew ==
    ASSUME IdInv, endpoint' = endpoint, turn' = turn, MintOk', MintsOn(minted, minted'),
           NEW new, IsCall(new), new.turn = turn.no, calls' = Append(calls, new),
           \A k \in DOMAIN calls : calls[k].turn = turn.no => calls[k].id # new.id,
           IF new.origin = "model"
           THEN ModelIdOf(new.id, endpoint.ids, Cardinality(MadeIn(calls, turn.no)) + 1, minted')
           ELSE ProgramId(new.id, minted')
    PROVE  IdInv'
<1> DEFINE n == Len(calls)
<1>1. IsList(calls, n) /\ n \in Nat
  BY DEF IdInv, CallsOk, IsList
<1>2. /\ DOMAIN calls = 1 .. n /\ IsList(calls', n + 1) /\ calls'[n + 1] = new
      /\ DOMAIN calls' = 1 .. n + 1 /\ \A k \in 1 .. n : calls'[k] = calls[k]
  BY <1>1, ListAppend
<1>3. Len(calls') = n + 1
  BY <1>2, ListAppend
<1> HIDE DEF n
<1>4. CallsOk'
  <2>1. \A k \in 1 .. n + 1 : IsCall(calls'[k])
    BY <1>1, <1>2 DEF IdInv, CallsOk
  <2> QED
    BY <1>2, <1>3, <2>1 DEF CallsOk
<1>5. TurnOk'
  <2>1. \A k \in 1 .. n + 1 : calls'[k].turn \in Nat /\ calls'[k].turn <= turn.no
    BY <1>1, <1>2 DEF IdInv, TurnOk
  <2> QED
    BY <1>2, <2>1 DEF IdInv, TurnOk
<1>6. IdsKnown'
  <2> SUFFICES ASSUME NEW k \in 1 .. n + 1
               PROVE  IdKnown(calls', endpoint.ids, minted', k)
    BY <1>2 DEF IdsKnown
  <2>1. \A id, ids, m, m1 : m \in Nat /\ m1 \in Nat /\ m <= m1 /\ ModelIdOf(id, ids, m, minted)
            => ModelIdOf(id, ids, m1, minted')
    <3> TAKE id, ids, m, m1
    <3> HAVE m \in Nat /\ m1 \in Nat /\ m <= m1 /\ ModelIdOf(id, ids, m, minted)
    <3>1. CASE ids
      BY <3>1 DEF ModelIdOf
    <3>2. CASE ~ids
      <4>1. minted.seq \in Nat /\ minted'.seq \in Nat /\ minted.seq <= minted'.seq
        BY DEF IdInv, MintOk, MintsOn
      <4>2. \A x \in 1 .. minted.seq : x \in 1 .. minted'.seq
        BY <4>1
      <4> QED
        BY <3>2, <4>2 DEF ModelIdOf
    <3> QED
      BY <3>1, <3>2
  <2>2. \A id : ProgramId(id, minted) => ProgramId(id, minted')
    <3> TAKE id
    <3>1. minted.seq \in Nat /\ minted'.seq \in Nat /\ minted.seq <= minted'.seq
      BY DEF IdInv, MintOk, MintsOn
    <3>2. \A x \in 1 .. minted.seq : x \in 1 .. minted'.seq
      BY <3>1
    <3>3. \A p \in DOMAIN minted.nested :
              /\ p \in DOMAIN minted'.nested
              /\ \A x \in 1 .. minted.nested[p] : x \in 1 .. minted'.nested[p]
      BY DEF IdInv, MintOk, MintsOn
    <3> QED
      BY <3>2, <3>3 DEF ProgramId
  <2>3. \A t : /\ Cardinality(MadeIn(calls, t)) \in Nat /\ Cardinality(MadeIn(calls', t)) \in Nat
               /\ Cardinality(MadeIn(calls, t)) <= Cardinality(MadeIn(calls', t))
               /\ new.turn = t /\ new.origin = "model"
                      => Cardinality(MadeIn(calls', t)) = Cardinality(MadeIn(calls, t)) + 1
    BY <1>1, CountGrows
  <2>4. CASE k \in 1 .. n
    <3>1. calls'[k] = calls[k] /\ IdKnown(calls, endpoint.ids, minted, k)
      BY <1>2, <2>4 DEF IdInv, IdsKnown
    <3>2. CASE calls[k].origin = "model"
      BY <2>1, <2>3, <3>1, <3>2 DEF IdKnown
    <3>3. CASE calls[k].origin # "model"
      BY <2>2, <3>1, <3>3 DEF IdKnown
    <3> QED
      BY <3>2, <3>3
  <2>5. CASE k = n + 1
    <3>1. calls'[k] = new
      BY <1>2, <2>5
    <3>2. CASE new.origin = "model"
      BY <2>3, <3>1, <3>2 DEF IdKnown
    <3>3. CASE new.origin # "model"
      BY <3>1, <3>3 DEF IdKnown
    <3> QED
      BY <3>2, <3>3
  <2> QED
    BY <1>1, <2>4, <2>5
<1>7. IdsApart'
  <2> SUFFICES ASSUME NEW j \in 1 .. n + 1, NEW k \in 1 .. n + 1, j # k,
                      calls'[j].turn = calls'[k].turn
               PROVE  calls'[j].id # calls'[k].id
    BY <1>2 DEF IdsApart
  <2>1. CASE j \in 1 .. n /\ k \in 1 .. n
    BY <1>2, <2>1 DEF IdInv, IdsApart
  <2>2. CASE j = n + 1 /\ k \in 1 .. n
    BY <1>2, <2>2
  <2>3. CASE j \in 1 .. n /\ k = n + 1
    BY <1>2, <2>3
  <2>4. n \in Nat /\ (j \in 1 .. n \/ j = n + 1) /\ (k \in 1 .. n \/ k = n + 1) /\ j # k
    <3>1. n \in Nat
      BY <1>1
    <3> QED
      BY <3>1
  <2> QED
    BY <2>1, <2>2, <2>3, <2>4
<1> QED
  BY <1>4, <1>5, <1>6, <1>7 DEF IdInv

LEMMA MintValues ==
    ASSUME MintOk
    PROVE  /\ minted.seq \in Nat
           /\ Minted = [seq |-> minted.seq + 1, nested |-> minted.nested]
           /\ MintsOn(minted, Minted)
<1> DEFINE s == minted.seq + 1
<1>1. minted.seq \in Nat
  BY DEF MintOk
<1>2. Minted = [minted EXCEPT !.seq = s]
  BY DEF Minted
<1>3. s \in Nat /\ minted.seq <= s
  BY <1>1
<1> HIDE DEF s
<1>4. Minted = [seq |-> s, nested |-> minted.nested]
  BY <1>2 DEF MintOk
<1>5. MintsOn(minted, Minted)
  BY <1>3, <1>4 DEF MintsOn, MintOk
<1> QED
  BY <1>1, <1>4, <1>5 DEF s

\* An identity with a new number is nobody's.
LEMMA NumbersFresh ==
    ASSUME IdInv, NEW tag \in {"call", "pcall"}, NEW k \in DOMAIN calls
    PROVE  calls[k].id # Tagged(tag, minted.seq + 1)
<1> DEFINE id == Tagged(tag, minted.seq + 1)
<1>1. minted.seq \in Nat /\ minted.seq + 1 \in Nat /\ minted.seq + 1 \notin 1 .. minted.seq
  BY DEF IdInv, MintOk
<1>2. id \in Ids /\ Len(id) = 2
  <2>1. tag \in Tags
    BY DEF Tags
  <2> QED
    BY <1>1, <2>1, TaggedIds
<1>3. IdKnown(calls, endpoint.ids, minted, k)
  BY DEF IdInv, IdsKnown
<1>4. \A p \in DOMAIN minted.nested : \A m \in 1 .. minted.nested[p] : id # Append(p, m)
  <2> TAKE p \in DOMAIN minted.nested
  <2> TAKE m \in 1 .. minted.nested[p]
  <2>1. p \in Ids /\ Len(p) >= 2 /\ m \in Nat
    BY DEF IdInv, MintOk
  <2>2. Len(Append(p, m)) = Len(p) + 1 /\ Len(p) \in Nat
    BY <2>1, ExtendedIds
  <2>3. Len(Append(p, m)) # 2
    BY <2>1, <2>2
  <2> QED
    BY <1>2, <2>3
<1>5. \A other, m : id = Tagged(other, m) => tag = other /\ minted.seq + 1 = m
  BY TaggedApart
<1> HIDE DEF id
<1>6. CASE calls[k].origin = "model"
  <2>1. ModelIdOf(calls[k].id, endpoint.ids, Cardinality(MadeIn(calls, calls[k].turn)), minted)
    BY <1>3, <1>6 DEF IdKnown
  <2>2. \/ \E m \in Nat : calls[k].id = Tagged("provider", m)
        \/ \E m \in 1 .. minted.seq : calls[k].id = Tagged("call", m)
    BY <2>1 DEF ModelIdOf
  <2>3. calls[k].id # id
    BY <1>1, <1>5, <2>2
  <2> QED
    BY <2>3 DEF id
<1>7. CASE calls[k].origin # "model"
  <2>1. ProgramId(calls[k].id, minted)
    BY <1>3, <1>7 DEF IdKnown
  <2>2. calls[k].id # id
    BY <1>1, <1>4, <1>5, <2>1 DEF ProgramId
  <2> QED
    BY <2>2 DEF id
<1> QED
  BY <1>6, <1>7

-----------------------------------------------------------------------------
(* The steps                                                               *)

LEMMA IdsInit ==
    ASSUME Init PROVE IdInv
<1>1. calls = <<>> /\ minted = [seq |-> 0, nested |-> <<>>]
      /\ turn = [no |-> 0, phase |-> "over", offered |-> <<>>]
  BY DEF Init
<1>2. Len(calls) = 0 /\ DOMAIN calls = {} /\ IsList(calls, 0)
  BY <1>1 DEF IsList
<1>3. MintOk
  BY <1>1 DEF MintOk
<1>4. CallsOk /\ TurnOk /\ IdsKnown /\ IdsApart
  BY <1>1, <1>2 DEF CallsOk, TurnOk, IsTurn, IdsKnown, IdsApart
<1> QED
  BY <1>3, <1>4 DEF IdInv

\* The steps that leave the calls alone.
LEMMA CallsLeft ==
    ASSUME IdInv, calls' = calls, minted' = minted, endpoint' = endpoint,
           IsTurn(turn)', turn'.no \in Nat, turn.no <= turn'.no
    PROVE  IdInv'
<1>1. \A k \in DOMAIN calls : SameCall(calls[k], calls'[k])
  BY CallFields DEF IdInv, CallsOk
<1>2. calls = [k \in DOMAIN calls |-> calls[k]]
  <2>1. IsList(calls, Len(calls))
    BY DEF IdInv, CallsOk
  <2>2. DOMAIN calls = 1 .. Len(calls)
    BY <2>1, ListAppend
  <2> QED
    BY <2>1, <2>2 DEF IsList
<1> QED
  BY <1>1, <1>2, IdsSame

\* The turn is at most another phase of itself.
LEMMA TurnsOn ==
    ASSUME IdInv,
           \/ turn' = turn
           \/ \E phase : turn' = [turn EXCEPT !.phase = phase]
           \/ \E offered : turn' = [no |-> turn.no + 1, phase |-> "streaming", offered |-> offered]
    PROVE  IsTurn(turn)' /\ turn'.no \in Nat /\ turn.no <= turn'.no
<1>1. IsTurn(turn) /\ turn.no \in Nat
  BY DEF IdInv, TurnOk
<1>2. CASE turn' = turn
  BY <1>1, <1>2
<1>3. ASSUME NEW phase, turn' = [turn EXCEPT !.phase = phase]
      PROVE  IsTurn(turn)' /\ turn'.no = turn.no
  BY <1>1, <1>3 DEF IsTurn
<1>4. ASSUME NEW offered,
             turn' = [no |-> turn.no + 1, phase |-> "streaming", offered |-> offered]
      PROVE  IsTurn(turn)' /\ turn'.no = turn.no + 1
  BY <1>4 DEF IsTurn
<1> QED
  BY <1>1, <1>2, <1>3, <1>4

\* Halting calls leaves each the call it is.
LEMMA HaltedSame ==
    ASSUME IdInv, NEW ks
    PROVE  /\ DOMAIN Halted(ks) = DOMAIN calls
           /\ Halted(ks) = [k \in DOMAIN calls |-> Halted(ks)[k]]
           /\ \A k \in DOMAIN calls : SameCall(calls[k], Halted(ks)[k])
<1>1. DOMAIN Halted(ks) = DOMAIN calls /\ Halted(ks) = [k \in DOMAIN calls |-> Halted(ks)[k]]
  BY DEF Halted
<1>2. ASSUME NEW k \in DOMAIN calls PROVE SameCall(calls[k], Halted(ks)[k])
  <2>1. SameCall(calls[k], calls[k]) /\ SameCall(calls[k], [calls[k] EXCEPT !.phase = "halted"])
    BY CallFields DEF IdInv, CallsOk
  <2>2. Halted(ks)[k] = calls[k] \/ Halted(ks)[k] = [calls[k] EXCEPT !.phase = "halted"]
    BY DEF Halted
  <2> QED
    BY <2>1, <2>2
<1> QED
  BY <1>1, <1>2

\* An identity known is one of Ids, and its two first places are its own.
LEMMA IdsShaped ==
    ASSUME IdInv, NEW k \in DOMAIN calls
    PROVE  calls[k].id \in Ids /\ Len(calls[k].id) >= 2
<1> DEFINE id == calls[k].id
<1>1. IdKnown(calls, endpoint.ids, minted, k)
  BY DEF IdInv, IdsKnown
<1>2. \A tag \in Tags, m \in Nat : Tagged(tag, m) \in Ids /\ Len(Tagged(tag, m)) >= 2
  <2>1. \A tag \in Tags, m \in Nat : Tagged(tag, m) \in Ids /\ Len(Tagged(tag, m)) = 2
    BY TaggedIds
  <2>2. \A l : l = 2 => l >= 2
    OBVIOUS
  <2> QED
    BY <2>1, <2>2
<1>3. "provider" \in Tags /\ "call" \in Tags /\ "pcall" \in Tags
  BY DEF Tags
<1>4. \A m \in 1 .. minted.seq : m \in Nat
  OBVIOUS
<1>5. ASSUME NEW p \in DOMAIN minted.nested, NEW m \in 1 .. minted.nested[p]
      PROVE  Append(p, m) \in Ids /\ Len(Append(p, m)) >= 2
  <2>1. p \in Ids /\ Len(p) >= 2 /\ m \in Nat
    BY DEF IdInv, MintOk
  <2>2. Append(p, m) \in Ids /\ Len(Append(p, m)) = Len(p) + 1 /\ Len(p) \in Nat
    BY <2>1, ExtendedIds
  <2> QED
    BY <2>1, <2>2
<1> QED
  BY <1>1, <1>2, <1>3, <1>4, <1>5 DEF IdKnown, ModelIdOf, ProgramId

LEMMA ModelCalls ==
    Current = MadeIn(calls, turn.no)
BY DEF Current, OfModel, MadeIn

\* A new identity of the model's is nobody's in its turn.
LEMMA ModelFresh ==
    ASSUME IdInv, NEW k \in DOMAIN calls, calls[k].turn = turn.no
    PROVE  calls[k].id # ModelId
<1> DEFINE count == Cardinality(MadeIn(calls, turn.no))
<1>0. count \in Nat
  <2>1. IsList(calls, Len(calls))
    BY DEF IdInv, CallsOk
  <2> QED
    BY <2>1, CountGrows
<1> HIDE DEF count
<1>1. CASE endpoint.ids
  <2>1. ModelId = Tagged("provider", count + 1)
    BY <1>1, ModelCalls DEF ModelId, Tagged, count
  <2>2. IdKnown(calls, endpoint.ids, minted, k)
    BY DEF IdInv, IdsKnown
  <2>3. \A other, m : ModelId = Tagged(other, m) => other = "provider" /\ m = count + 1
    BY <2>1, TaggedApart
  <2>4. CASE calls[k].origin = "model"
    <3>1. \E m \in Nat : calls[k].id = Tagged("provider", m) /\ m <= count
      BY <1>1, <2>2, <2>4 DEF IdKnown, ModelIdOf, count
    <3> QED
      BY <1>0, <2>3, <3>1
  <2>5. CASE calls[k].origin # "model"
    <3>1. ProgramId(calls[k].id, minted)
      BY <2>2, <2>5 DEF IdKnown
    <3>2. CASE \E m \in 1 .. minted.seq : calls[k].id = Tagged("pcall", m)
      BY <2>3, <3>2
    <3>3. ASSUME NEW p \in DOMAIN minted.nested, NEW m \in 1 .. minted.nested[p],
                 calls[k].id = Append(p, m)
          PROVE  calls[k].id # ModelId
      <4>1. p \in Ids /\ Len(p) >= 2 /\ m \in Nat
        BY DEF IdInv, MintOk
      <4>2. Len(Append(p, m)) = Len(p) + 1 /\ Len(p) \in Nat
        BY <4>1, ExtendedIds
      <4>3. Len(ModelId) = 2
        <5>1. "provider" \in Tags /\ count + 1 \in Nat
          BY <1>0 DEF Tags
        <5> QED
          BY <2>1, <5>1, TaggedIds
      <4>4. Len(Append(p, m)) # 2
        BY <4>1, <4>2
      <4> QED
        BY <3>3, <4>3, <4>4
    <3> QED
      BY <3>1, <3>2, <3>3 DEF ProgramId
  <2> QED
    BY <2>4, <2>5
<1>2. CASE ~endpoint.ids
  BY <1>2, NumbersFresh DEF ModelId, Tagged
<1> QED
  BY <1>1, <1>2

LEMMA NewIsCall ==
    ASSUME NEW id, NEW origin, NEW parent, NEW tool, NEW phase
    PROVE  LET new == NewCall(id, origin, parent, tool, phase)
           IN  IsCall(new) /\ new.id = id /\ new.origin = origin /\ new.turn = turn.no
BY DEF NewCall, IsCall

LEMMA FormsKeepIds ==
    ASSUME IdInv, CallForms PROVE IdInv'
<1>1. PICK tool : calls' = Append(calls, NewCall(ModelId, "model", 0, tool, "forming"))
  BY DEF CallForms
<1> DEFINE new == NewCall(ModelId, "model", 0, tool, "forming")
           count == Cardinality(MadeIn(calls, turn.no))
<1>2. IsCall(new) /\ new.id = ModelId /\ new.origin = "model" /\ new.turn = turn.no
  BY NewIsCall
<1>3. /\ minted.seq \in Nat /\ minted' = [seq |-> minted.seq + 1, nested |-> minted.nested]
      /\ MintsOn(minted, minted')
  BY MintValues DEF IdInv, CallForms
<1>4. MintOk'
  BY <1>3 DEF IdInv, MintOk
<1>5. count \in Nat
  <2>1. IsList(calls, Len(calls))
    BY DEF IdInv, CallsOk
  <2> QED
    BY <2>1, CountGrows
<1>6. ModelIdOf(ModelId, endpoint.ids, count + 1, minted')
  <2>1. CASE endpoint.ids
    <3>1. ModelId = Tagged("provider", count + 1)
      BY <2>1, ModelCalls DEF ModelId, Tagged
    <3> HIDE DEF count
    <3>2. count + 1 \in Nat /\ count + 1 <= count + 1
      BY <1>5
    <3> QED
      BY <2>1, <3>1, <3>2 DEF ModelIdOf
  <2>2. CASE ~endpoint.ids
    <3>1. minted.seq + 1 \in 1 .. minted'.seq
      BY <1>3
    <3> QED
      BY <2>2, <3>1 DEF ModelId, ModelIdOf, Tagged
  <2> QED
    BY <2>1, <2>2
<1>7. \A k \in DOMAIN calls : calls[k].turn = turn.no => calls[k].id # new.id
  BY <1>2, ModelFresh
<1>8. endpoint' = endpoint /\ turn' = turn
  BY DEF CallForms
<1> HIDE DEF new
<1> QED
  BY <1>1, <1>2, <1>3, <1>4, <1>6, <1>7, <1>8, IdsNew DEF new

\* What minting for a call does: its parent has given out one more number.
LEMMA NestedValues ==
    ASSUME MintOk, NEW p \in Ids, Len(p) >= 2, minted' = MintedNested(p)
    PROVE  /\ MintOk' /\ MintsOn(minted, minted') /\ NextNested(p) \in Nat
           /\ p \in DOMAIN minted'.nested /\ minted'.nested[p] = NextNested(p)
           /\ NextNested(p) \in 1 .. minted'.nested[p]
           /\ p \in DOMAIN minted.nested => NextNested(p) \notin 1 .. minted.nested[p]
<1> DEFINE domain == DOMAIN minted.nested \union {p}
           next == NextNested(p)
           nested == [q \in domain |-> IF q = p THEN next ELSE minted.nested[q]]
<1>1. next \in Nat /\ 1 <= next
      /\ (p \in DOMAIN minted.nested => minted.nested[p] \in Nat /\ next = minted.nested[p] + 1)
  BY DEF NextNested, MintOk
<1>2. Minted.nested = minted.nested /\ Minted.seq = minted.seq + 1 /\ minted.seq \in Nat
      /\ Minted = [seq |-> minted.seq + 1, nested |-> minted.nested]
  BY MintValues
<1>3. minted' = [Minted EXCEPT !.nested = nested]
  BY <1>2 DEF MintedNested
<1>4. /\ DOMAIN nested = domain /\ nested[p] = next
      /\ \A q \in domain : nested[q] = IF q = p THEN next ELSE minted.nested[q]
      /\ nested = [q \in domain |-> nested[q]]
  OBVIOUS
<1> HIDE DEF nested, next
<1>5. minted' = [seq |-> minted.seq + 1, nested |-> nested]
  BY <1>2, <1>3
<1>6. minted'.seq = minted.seq + 1 /\ minted'.nested = nested
  BY <1>5
<1>7. MintOk'
  <2>1. \A q \in domain : q \in Ids /\ Len(q) >= 2 /\ nested[q] \in Nat
    BY <1>1, <1>4 DEF MintOk
  <2>2. minted'.seq \in Nat
    BY <1>2, <1>6
  <2>3. \A q \in DOMAIN minted'.nested :
            q \in Ids /\ Len(q) >= 2 /\ minted'.nested[q] \in Nat
    BY <1>4, <1>6, <2>1
  <2>4. minted'.nested = [q \in DOMAIN minted'.nested |-> minted'.nested[q]]
    BY <1>4, <1>6
  <2>5. minted' = [seq |-> minted'.seq, nested |-> minted'.nested]
    BY <1>5
  <2> QED
    BY <2>2, <2>3, <2>4, <2>5 DEF MintOk
<1>8. MintsOn(minted, minted')
  <2>1. \A q \in DOMAIN minted.nested : minted.nested[q] \in Nat
    BY DEF MintOk
  <2>2. ASSUME NEW q \in DOMAIN minted.nested PROVE minted.nested[q] <= nested[q]
    <3>1. CASE q = p
      <4>1. minted.nested[q] \in Nat /\ nested[q] = minted.nested[q] + 1
        BY <1>1, <1>4, <3>1
      <4> QED
        BY <4>1
    <3>2. CASE q # p
      <4>1. minted.nested[q] \in Nat /\ nested[q] = minted.nested[q]
        BY <1>4, <2>1, <3>2
      <4> QED
        BY <4>1
    <3> QED
      BY <3>1, <3>2
  <2>3. minted.seq <= minted'.seq
    BY <1>2, <1>6
  <2>4. DOMAIN minted.nested \subseteq DOMAIN minted'.nested
    BY <1>4, <1>6
  <2>5. \A q \in DOMAIN minted.nested : minted.nested[q] <= minted'.nested[q]
    BY <1>6, <2>2
  <2> QED
    BY <2>3, <2>4, <2>5 DEF MintsOn
<1> QED
  BY <1>1, <1>4, <1>6, <1>7, <1>8 DEF next

LEMMA NestedKeepsIds ==
    ASSUME IdInv, NEW k \in DOMAIN calls, NEW tool, CallsNested(k, tool) PROVE IdInv'
<1> DEFINE p == calls[k].id
           next == NextNested(p)
           id == Append(p, next)
           new == NewCall(id, "program", k, tool, "starting")
<1>1. p \in Ids /\ Len(p) >= 2
  BY IdsShaped
<1>2. calls' = Append(calls, new) /\ minted' = MintedNested(p)
      /\ endpoint' = endpoint /\ turn' = turn
  BY DEF CallsNested, ProgramCalls
<1> HIDE DEF p, id
<1>3. IsCall(new) /\ new.id = id /\ new.origin = "program" /\ new.turn = turn.no
  BY NewIsCall
<1> HIDE DEF new
<1>4. /\ MintOk' /\ MintsOn(minted, minted') /\ next \in Nat
      /\ p \in DOMAIN minted'.nested /\ next \in 1 .. minted'.nested[p]
      /\ p \in DOMAIN minted.nested => next \notin 1 .. minted.nested[p]
  BY <1>1, <1>2, NestedValues DEF IdInv
<1> HIDE DEF next
<1>5. ProgramId(id, minted')
  BY <1>4 DEF ProgramId, id
<1>6. id \in Ids /\ Len(id) = Len(p) + 1 /\ Len(p) \in Nat
      /\ \A q \in Ids, j \in Nat : id = Append(q, j) => p = q /\ next = j
  BY <1>1, <1>4, ExtendedIds DEF id
<1>7. Len(id) # 2
  BY <1>1, <1>6
<1>8. \A tag \in Tags, m \in Nat : id # Tagged(tag, m)
  BY <1>7, TaggedIds
<1>9. "provider" \in Tags /\ "call" \in Tags /\ "pcall" \in Tags
  BY DEF Tags
<1>10. ASSUME NEW j \in DOMAIN calls PROVE calls[j].id # id
  <2>1. IdKnown(calls, endpoint.ids, minted, j)
    BY DEF IdInv, IdsKnown
  <2>2. \A m \in 1 .. minted.seq : m \in Nat
    OBVIOUS
  <2>3. ASSUME NEW q \in DOMAIN minted.nested, NEW m \in 1 .. minted.nested[q]
        PROVE  id # Append(q, m)
    <3>1. q \in Ids /\ m \in Nat
      BY DEF IdInv, MintOk
    <3> QED
      BY <1>4, <1>6, <3>1
  <2> QED
    BY <1>8, <1>9, <2>1, <2>2, <2>3 DEF IdKnown, ModelIdOf, ProgramId
<1> QED
  BY <1>2, <1>3, <1>4, <1>5, <1>10, IdsNew

LEMMA AloneKeepsIds ==
    ASSUME IdInv, NEW tool, CallsAlone(tool) PROVE IdInv'
<1> DEFINE id == Tagged("pcall", minted.seq + 1)
           new == NewCall(id, "program", 0, tool, "starting")
<1>1. calls' = Append(calls, new) /\ endpoint' = endpoint /\ turn' = turn
  BY DEF CallsAlone, ProgramCalls, Tagged
<1>2. IsCall(new) /\ new.id = id /\ new.origin = "program" /\ new.turn = turn.no
  BY NewIsCall
<1> HIDE DEF new
<1>3. /\ minted.seq \in Nat /\ minted' = [seq |-> minted.seq + 1, nested |-> minted.nested]
      /\ MintsOn(minted, minted')
  BY MintValues DEF IdInv, CallsAlone
<1>4. MintOk'
  BY <1>3 DEF IdInv, MintOk
<1>5. ProgramId(id, minted')
  <2>1. minted.seq + 1 \in 1 .. minted'.seq
    BY <1>3
  <2> QED
    BY <2>1 DEF ProgramId
<1>6. \A j \in DOMAIN calls : calls[j].id # id
  BY NumbersFresh
<1> HIDE DEF id
<1> QED
  BY <1>1, <1>2, <1>3, <1>4, <1>5, <1>6, IdsNew

\* What a call does leaves the others the calls they are, and itself as well.
LEMMA CallKeepsIds ==
    ASSUME IdInv, NEW k \in DOMAIN calls, CallStep(k) PROVE IdInv'
<1>1. \A j \in DOMAIN calls : IsCall(calls[j])
  BY DEF IdInv, CallsOk
<1>2. calls = [j \in DOMAIN calls |-> calls[j]]
  <2>1. IsList(calls, Len(calls))
    BY DEF IdInv, CallsOk
  <2>2. DOMAIN calls = 1 .. Len(calls)
    BY <2>1, ListAppend
  <2> QED
    BY <2>1, <2>2 DEF IsList
<1>4. CASE Announce(k) \/ Completes(k)
  <2>1. DOMAIN calls' = DOMAIN calls /\ calls' = [j \in DOMAIN calls |-> calls'[j]]
    BY <1>2, <1>4 DEF Announce, Completes
  <2>2. \A j \in DOMAIN calls : j # k => calls'[j] = calls[j]
    BY <1>2, <1>4 DEF Announce, Completes
  <2>3. \/ calls'[k] = [[calls[k] EXCEPT !.phase = "completing"] EXCEPT !.status = "refused"]
        \/ calls'[k] = [calls[k] EXCEPT !.phase = "running"]
        \/ calls'[k] = [[calls[k] EXCEPT !.phase = "over"] EXCEPT !.ended = turn.no]
    BY <1>2, <1>4 DEF Announce, Completes
  <2>6. SameCall(calls[k], calls'[k])
    BY <1>1, <2>3, CallMoves
  <2>4. \A j \in DOMAIN calls : SameCall(calls[j], calls'[j])
    BY <1>1, <2>2, <2>6 DEF SameCall
  <2>5. minted' = minted /\ endpoint' = endpoint /\ turn' = turn
    BY <1>4 DEF Announce, Completes
  <2> QED
    BY <2>1, <2>4, <2>5, TurnsOn, IdsSame
<1>5. CASE Outputs(k)
  BY <1>5, TurnsOn, CallsLeft DEF Outputs
<1>6. CASE ToolEnds(k)
  <2>1. PICK awaited \in SUBSET Made(k) :
            calls' = [Halted(awaited) EXCEPT
                         ![k].status = IF awaited = {} THEN "ok" ELSE "timeout",
                         ![k].phase = "completing"]
    BY <1>6 DEF ToolEnds
  <2> DEFINE halted == Halted(awaited)
             status == IF awaited = {} THEN "ok" ELSE "timeout"
  <2>2. /\ DOMAIN halted = DOMAIN calls /\ halted = [j \in DOMAIN calls |-> halted[j]]
        /\ \A j \in DOMAIN calls : SameCall(calls[j], halted[j])
    BY HaltedSame
  <2> HIDE DEF halted, status
  <2>3. calls' = [halted EXCEPT ![k].status = status, ![k].phase = "completing"]
    BY <2>1 DEF halted, status
  <2>4. DOMAIN calls' = DOMAIN calls /\ calls' = [j \in DOMAIN calls |-> calls'[j]]
    BY <2>2, <2>3
  <2>5. \A j \in DOMAIN calls : j # k => calls'[j] = halted[j]
    BY <2>2, <2>3
  <2>6. calls'[k] = [[halted[k] EXCEPT !.status = status] EXCEPT !.phase = "completing"]
    BY <2>2, <2>3
  <2>7. IsCall(halted[k])
    BY <2>2 DEF SameCall
  <2>8. SameCall(halted[k], calls'[k])
    BY <2>6, <2>7, CallMoves
  <2>9. \A j \in DOMAIN calls : SameCall(calls[j], calls'[j])
    BY <2>2, <2>5, <2>8, SameCallTwice
  <2>10. minted' = minted /\ endpoint' = endpoint /\ turn' = turn
    BY <1>6 DEF ToolEnds
  <2> QED
    BY <2>4, <2>9, <2>10, TurnsOn, IdsSame
<1>7. CASE \E tool \in Tools : CallsNested(k, tool.name)
  BY <1>7, NestedKeepsIds
<1> QED
  BY <1>4, <1>5, <1>6, <1>7 DEF CallStep

LEMMA IdsNext ==
    ASSUME IdInv, [Next]_vars PROVE IdInv'
<1>1. CASE UNCHANGED vars \/ Switch \/ Says \/ Notices
  <2>1. calls' = calls /\ minted' = minted /\ endpoint' = endpoint /\ turn' = turn
    BY <1>1 DEF vars, Switch, Says, Notices
  <2> QED
    BY <2>1, TurnsOn, CallsLeft
<1>2. CASE TurnBegins
  <2>1. calls' = calls /\ minted' = minted /\ endpoint' = endpoint
        /\ \E offered : turn' = [no |-> turn.no + 1, phase |-> "streaming", offered |-> offered]
    BY <1>2 DEF TurnBegins
  <2> QED
    BY <2>1, TurnsOn, CallsLeft
<1>3. CASE Replies
  <2>1. calls' = calls /\ minted' = minted /\ endpoint' = endpoint
        /\ \E phase : turn' = [turn EXCEPT !.phase = phase]
    BY <1>3 DEF Replies
  <2> QED
    BY <2>1, TurnsOn, CallsLeft
<1>4. CASE CallForms
  BY <1>4, FormsKeepIds
<1>5. CASE ResponseEnds
  <2>1. minted' = minted /\ endpoint' = endpoint
        /\ \E phase : turn' = [turn EXCEPT !.phase = phase]
    BY <1>5 DEF ResponseEnds
  <2>2. calls' = [k \in DOMAIN calls |->
                     IF k \in Current THEN [calls[k] EXCEPT !.phase = "starting"] ELSE calls[k]]
    BY <1>5 DEF ResponseEnds
  <2>3. DOMAIN calls' = DOMAIN calls /\ calls' = [k \in DOMAIN calls |-> calls'[k]]
    BY <2>2
  <2>4. ASSUME NEW k \in DOMAIN calls PROVE SameCall(calls[k], calls'[k])
    <3>1. SameCall(calls[k], calls[k])
          /\ SameCall(calls[k], [calls[k] EXCEPT !.phase = "starting"])
      BY CallFields DEF IdInv, CallsOk
    <3>2. calls'[k] = calls[k] \/ calls'[k] = [calls[k] EXCEPT !.phase = "starting"]
      BY <2>2
    <3> QED
      BY <3>1, <3>2
  <2> QED
    BY <2>1, <2>3, <2>4, TurnsOn, IdsSame
<1>6. CASE CancelTurn \/ Fails
  <2>1. minted' = minted /\ endpoint' = endpoint
        /\ \E phase : turn' = [turn EXCEPT !.phase = phase]
    BY <1>6 DEF CancelTurn, Fails
  <2>2. PICK ks : calls' = Halted(ks)
    BY <1>6 DEF CancelTurn, Fails
  <2> QED
    BY <2>1, <2>2, HaltedSame, TurnsOn, IdsSame
<1>7. CASE \E k \in DOMAIN calls : CallStep(k)
  BY <1>7, CallKeepsIds
<1>8. CASE \E tool \in Tools : CallsAlone(tool.name)
  BY <1>8, AloneKeepsIds
<1> QED
  BY <1>1, <1>2, <1>3, <1>4, <1>5, <1>6, <1>7, <1>8 DEF Next

LEMMA IdsAlways == Spec => []IdInv
BY IdsInit, IdsNext, PTL DEF Spec

\* However many turns and calls there are, of the model's and of programs', and
\* whoever numbers them, no two calls of a turn have the same identity: the part
\* of CallsAnswered that the folds of RunFold and the rows of Screen rest on.
THEOREM IdsAlwaysApart == Spec => []IdsApart
<1>1. IdInv => IdsApart
  BY DEF IdInv
<1> QED
  BY <1>1, IdsAlways, PTL

-----------------------------------------------------------------------------
(* The fold of a run's events                                              *)

Run == INSTANCE ListFacts WITH Step <- Applied

\* The models' FoldLeft is the one the laws are about.
LEMMA RunFolds == \A f, events : FoldLeft(Applied, f, events) = Run!FoldLeft(Applied, f, events)
BY DEF FoldLeft, Run!FoldLeft, MapThenFoldSet, Run!MapThenFoldSet, Max, Run!Max

\* The fold of events that come one after the other.
AllApplied(f, events) == FoldLeft(Applied, f, events)
LEMMA AllFolds == \A f, events : AllApplied(f, events) = Run!FoldLeft(Applied, f, events)
BY RunFolds DEF AllApplied

\* One event folded, two and three.
LEMMA FoldsOne ==
    ASSUME NEW f, NEW e
    PROVE  AllApplied(f, <<e>>) = Applied(f, e)
BY AllFolds, Run!FoldOne

\* A call as a fold has it, and a fold.
IsEntry(c) == c = [status |-> c.status, args |-> c.args, output |-> c.output]
IsFold(f) ==
    /\ f = [run |-> f.run, status |-> f.status, iteration |-> f.iteration,
            content |-> f.content, answer |-> f.answer, usage |-> f.usage,
            calls |-> f.calls, seq |-> f.seq]
    /\ f.calls = [id \in DOMAIN f.calls |-> f.calls[id]]
    /\ \A id \in DOMAIN f.calls : IsEntry(f.calls[id])
    /\ f.seq \in Nat
IsEvent(e) ==
    e = [kind |-> e.kind, call |-> e.call, value |-> e.value, run |-> e.run, seq |-> e.seq]

\* What an event of a kind changes of a fold, but for the run and the calls.
CallKinds == {"args", "call_started", "output", "call_finished"}
Entry(f, id) == IF id \in DOMAIN f.calls THEN f.calls[id] ELSE Forming
EntryAfter(f, e) ==
    CASE e.kind = "args" -> [Entry(f, e.call) EXCEPT !.args = @ + 1]
      [] e.kind = "call_started" -> [Entry(f, e.call) EXCEPT !.status = "running"]
      [] e.kind = "output" -> [Entry(f, e.call) EXCEPT !.output = @ + 1]
      [] OTHER -> [Entry(f, e.call) EXCEPT !.status = e.value]
Touches(f, e) ==
    \/ e.kind \in {"args", "call_started"}
    \/ e.kind \in CallKinds /\ e.call \in DOMAIN f.calls

\* A call put into a fold.
LEMMA PutIs ==
    ASSUME NEW f, IsFold(f), NEW id, NEW c, IsEntry(c)
    PROVE  LET g == Put(f, id, c) IN
           /\ IsFold(g) /\ DOMAIN g.calls = DOMAIN f.calls \union {id}
           /\ g.calls[id] = c
           /\ \A other \in DOMAIN f.calls : other # id => g.calls[other] = f.calls[other]
           /\ g.run = f.run /\ g.status = f.status /\ g.iteration = f.iteration
           /\ g.content = f.content /\ g.answer = f.answer /\ g.usage = f.usage
           /\ g.seq = f.seq
<1> DEFINE cs == [i \in DOMAIN f.calls \union {id} |-> IF i = id THEN c ELSE f.calls[i]]
           g == Put(f, id, c)
<1>1. g = [f EXCEPT !.calls = cs]
  BY DEF Put, IsFold
<1>2. /\ DOMAIN cs = DOMAIN f.calls \union {id} /\ cs = [i \in DOMAIN cs |-> cs[i]]
      /\ cs[id] = c
      /\ \A other \in DOMAIN f.calls : other # id => cs[other] = f.calls[other]
  OBVIOUS
<1>3. \A i \in DOMAIN cs : IsEntry(cs[i])
  BY DEF IsFold
<1> HIDE DEF cs, g
<1>4. g = [run |-> f.run, status |-> f.status, iteration |-> f.iteration,
           content |-> f.content, answer |-> f.answer, usage |-> f.usage,
           calls |-> cs, seq |-> f.seq]
  BY <1>1 DEF IsFold
<1>5. IsFold(g)
  BY <1>2, <1>3, <1>4 DEF IsFold
<1> QED
  BY <1>2, <1>4, <1>5 DEF g

\* What an event about a call makes of the call.
LEMMA EntryIs ==
    ASSUME NEW f, IsFold(f), NEW e, e.kind \in CallKinds
    PROVE  /\ IsEntry(Entry(f, e.call)) /\ IsEntry(EntryAfter(f, e))
           /\ e.kind = "call_finished" => EntryAfter(f, e).status = e.value
           /\ e.kind = "call_started" => EntryAfter(f, e).status = "running"
<1> DEFINE c == Entry(f, e.call)
<1>1. IsEntry(c)
  BY DEF Entry, IsFold, Forming, IsEntry
<1> HIDE DEF c
<1>2. EntryAfter(f, e) \in
        {[status |-> c.status, args |-> c.args + 1, output |-> c.output],
         [status |-> "running", args |-> c.args, output |-> c.output],
         [status |-> c.status, args |-> c.args, output |-> c.output + 1],
         [status |-> e.value, args |-> c.args, output |-> c.output]}
  BY <1>1 DEF EntryAfter, IsEntry, CallKinds, c
<1>3. e.kind = "call_finished" =>
        EntryAfter(f, e) = [status |-> e.value, args |-> c.args, output |-> c.output]
  BY <1>1 DEF EntryAfter, IsEntry, CallKinds, c
<1>4. e.kind = "call_started" =>
        EntryAfter(f, e) = [status |-> "running", args |-> c.args, output |-> c.output]
  BY <1>1 DEF EntryAfter, IsEntry, CallKinds, c
<1> QED
  BY <1>1, <1>2, <1>3, <1>4 DEF IsEntry, c

\* An event about a call changes that call, if the fold takes it up, and nothing
\* else.
LEMMA CallFolds ==
    ASSUME NEW f, IsFold(f), NEW e, e.kind \in CallKinds
    PROVE  LET g == Folded(f, e) IN
           /\ IsFold(g)
           /\ g.run = f.run /\ g.status = f.status /\ g.iteration = f.iteration
           /\ g.content = f.content /\ g.answer = f.answer /\ g.usage = f.usage
           /\ g.seq = f.seq
           /\ ~Touches(f, e) => g = f
           /\ Touches(f, e) =>
                 /\ DOMAIN g.calls = DOMAIN f.calls \union {e.call}
                 /\ g.calls[e.call] = EntryAfter(f, e)
                 /\ \A other \in DOMAIN f.calls : other # e.call => g.calls[other] = f.calls[other]
<1>1. Folded(f, e) = IF Touches(f, e) THEN Put(f, e.call, EntryAfter(f, e)) ELSE f
  <2>1. Call(f, e.call, Forming) = Entry(f, e.call)
    BY DEF Call, Entry
  <2>2. CASE e.kind = "args"
    BY <2>1, <2>2 DEF Folded, Touches, EntryAfter
  <2>3. CASE e.kind = "call_started"
    BY <2>1, <2>3 DEF Folded, Touches, EntryAfter
  <2>4. CASE e.kind = "output"
    <3>1. Folded(f, e) = Known(f, e.call, [Call(f, e.call, Forming) EXCEPT !.output = @ + 1])
      BY <2>4 DEF Folded
    <3>2. EntryAfter(f, e) = [Call(f, e.call, Forming) EXCEPT !.output = @ + 1]
      BY <2>1, <2>4 DEF EntryAfter
    <3> QED
      BY <2>4, <3>1, <3>2 DEF Touches, Known, CallKinds
  <2>5. CASE e.kind = "call_finished"
    <3>1. Folded(f, e) = Known(f, e.call, [Call(f, e.call, Forming) EXCEPT !.status = e.value])
      BY <2>5 DEF Folded
    <3>2. EntryAfter(f, e) = [Call(f, e.call, Forming) EXCEPT !.status = e.value]
      BY <2>1, <2>5 DEF EntryAfter
    <3> QED
      BY <2>5, <3>1, <3>2 DEF Touches, Known, CallKinds
  <2> QED
    BY <2>2, <2>3, <2>4, <2>5 DEF CallKinds
<1>2. IsEntry(EntryAfter(f, e))
  BY EntryIs
<1> DEFINE c == EntryAfter(f, e)
<1> HIDE DEF c
<1>3. CASE Touches(f, e)
  <2>1. Folded(f, e) = Put(f, e.call, c)
    BY <1>1, <1>3 DEF c
  <2> QED
    BY <2>1, <1>2, <1>3, PutIs DEF c
<1>4. CASE ~Touches(f, e)
  BY <1>1, <1>4
<1> QED
  BY <1>3, <1>4

\* What two folds of one run have in common, and what one event makes of both.
Same(f, g) ==
    /\ f.run = g.run /\ f.status = g.status /\ f.iteration = g.iteration
    /\ f.content = g.content /\ f.answer = g.answer /\ f.usage = g.usage

\* An event that is about no call leaves the calls, and makes the same of two
\* folds that have the same.
LEMMA PlainFolds ==
    ASSUME NEW f, IsFold(f), NEW e, e.kind \notin CallKinds
    PROVE  /\ IsFold(Folded(f, e))
           /\ Folded(f, e).calls = f.calls /\ Folded(f, e).seq = f.seq
           /\ Folded(f, e).run = IF e.kind = "run_started" THEN e.run ELSE f.run
           /\ Folded(f, e).status =
                 CASE e.kind = "run_started" -> "running"
                   [] e.kind = "run_finished" -> (IF e.value.cancelled THEN "cancelled" ELSE "done")
                   [] e.kind = "run_failed" -> "failed"
                   [] OTHER -> f.status
           /\ e.kind = "notice" => Folded(f, e) = f
           /\ \A g : IsFold(g) /\ Same(f, g) => Same(Folded(f, e), Folded(g, e))
<1> DEFINE Fields(h) == [run |-> h.run, status |-> h.status, iteration |-> h.iteration,
                         content |-> h.content, answer |-> h.answer, usage |-> h.usage,
                         calls |-> h.calls, seq |-> h.seq]
<1>1. CASE e.kind = "run_started"
  <2>1. ASSUME NEW h, IsFold(h)
        PROVE  Folded(h, e) = [run |-> e.run, status |-> "running", iteration |-> h.iteration,
                               content |-> h.content, answer |-> h.answer, usage |-> h.usage,
                               calls |-> h.calls, seq |-> h.seq]
    BY <1>1, <2>1 DEF Folded, IsFold
  <2>2. IsFold(Folded(f, e))
        /\ \A g : IsFold(g) /\ Same(f, g) => Same(Folded(f, e), Folded(g, e))
    BY <2>1 DEF IsFold, Same
  <2> QED
    BY <1>1, <2>1, <2>2
<1>2. CASE e.kind = "iteration_started"
  <2>1. ASSUME NEW h, IsFold(h)
        PROVE  Folded(h, e) = [Fields(h) EXCEPT !.iteration = e.value]
    BY <1>2, <2>1 DEF Folded, IsFold
  <2> QED
    BY <1>2, <2>1 DEF IsFold, Same
<1>3. CASE e.kind = "text"
  <2>1. ASSUME NEW h, IsFold(h)
        PROVE  Folded(h, e) = [Fields(h) EXCEPT !.content = h.content + 1]
    BY <1>3, <2>1 DEF Folded, IsFold
  <2> QED
    BY <1>3, <2>1 DEF IsFold, Same
<1>4. CASE e.kind = "iteration_finished"
  <2>1. ASSUME NEW h, IsFold(h)
        PROVE  Folded(h, e) = [Fields(h) EXCEPT !.usage = h.usage + e.value]
    BY <1>4, <2>1 DEF Folded, IsFold
  <2> QED
    BY <1>4, <2>1 DEF IsFold, Same
<1>5. CASE e.kind = "run_finished"
  <2> DEFINE status == IF e.value.cancelled THEN "cancelled" ELSE "done"
             Iteration(h) == IF e.value.iterations = 0 THEN h.iteration ELSE e.value.iterations
  <2>1. ASSUME NEW h, IsFold(h)
        PROVE  Folded(h, e) = [run |-> h.run, status |-> status, iteration |-> Iteration(h),
                               content |-> h.content, answer |-> e.value.answer,
                               usage |-> e.value.usage, calls |-> h.calls, seq |-> h.seq]
    BY <1>5, <2>1 DEF Folded, IsFold
  <2>2. \A g : Same(f, g) => Iteration(f) = Iteration(g)
    BY DEF Same
  <2> HIDE DEF Iteration, status
  <2>3. IsFold(Folded(f, e))
        /\ \A g : IsFold(g) /\ Same(f, g) => Same(Folded(f, e), Folded(g, e))
    BY <2>1, <2>2 DEF IsFold, Same
  <2> QED
    BY <1>5, <2>1, <2>3 DEF status
<1>6. CASE e.kind = "run_failed"
  <2>1. ASSUME NEW h, IsFold(h)
        PROVE  Folded(h, e) = [Fields(h) EXCEPT !.status = "failed"]
    BY <1>6, <2>1 DEF Folded, IsFold
  <2> QED
    BY <1>6, <2>1 DEF IsFold, Same
<1>7. CASE e.kind \notin {"run_started", "iteration_started", "text", "iteration_finished",
                          "run_finished", "run_failed"}
  <2>1. ASSUME NEW h PROVE Folded(h, e) = h
    BY <1>7 DEF Folded, CallKinds
  <2> QED
    BY <1>7, <2>1
<1> QED
  BY <1>1, <1>2, <1>3, <1>4, <1>5, <1>6, <1>7

\* A fold that takes an event up.
LEMMA TakesUp ==
    ASSUME NEW f, IsFold(f), NEW e, Folds(f, e), e.seq \in Nat
    PROVE  \E g : /\ IsFold(g) /\ Same(f, g) /\ g.calls = f.calls
                  /\ g.seq = IF e.seq > f.seq THEN e.seq ELSE f.seq
                  /\ Applied(f, e) = Folded(g, e)
<1> DEFINE later == IF e.seq > f.seq THEN e.seq ELSE f.seq
           g == [f EXCEPT !.seq = later]
<1>1. g = [run |-> f.run, status |-> f.status, iteration |-> f.iteration,
           content |-> f.content, answer |-> f.answer, usage |-> f.usage,
           calls |-> f.calls, seq |-> later]
  BY DEF IsFold
<1>2. Applied(f, e) = Folded(g, e)
  BY DEF Applied, IsFold
<1>3. later \in Nat
  BY DEF IsFold
<1> HIDE DEF later, g
<1>4. IsFold(g) /\ Same(f, g) /\ g.calls = f.calls /\ g.seq = later
  BY <1>1, <1>3 DEF IsFold, Same
<1> QED
  BY <1>2, <1>4 DEF later

\* A fold that counts nothing takes an event as it is.
LEMMA TakesAsIs ==
    ASSUME NEW g, IsFold(g), NEW d, Folds(g, d), d.seq = 0
    PROVE  Applied(g, d) = Folded(g, d)
<1>1. ~(d.seq > g.seq)
  BY DEF IsFold
<1>2. [g EXCEPT !.seq = g.seq] = g
  BY DEF IsFold
<1> QED
  BY <1>1, <1>2 DEF Applied, IsFold

-----------------------------------------------------------------------------
(* A consumer's fold beside the live one.  M are the identities of the         *)
(* model's calls of the run, P those of the programs'.                        *)

Like(f, g, M, P) ==
    /\ IsFold(f) /\ IsFold(g) /\ Same(f, g) /\ g.seq = 0
    /\ DOMAIN g.calls \subseteq M /\ DOMAIN f.calls \subseteq M \union P
    /\ \A id \in M : id \in DOMAIN f.calls => id \in DOMAIN g.calls
    /\ \A id \in DOMAIN g.calls : id \in DOMAIN f.calls /\ f.calls[id] = g.calls[id]

\* An event of the turn or of a call of the model's, folded by both.
LEMMA LikeFolds ==
    ASSUME NEW f, NEW g, NEW M, NEW P, Like(f, g, M, P), M \cap P = {},
           NEW e, e.kind \in CallKinds => e.call \in M
    PROVE  Like(Folded(f, e), Folded(g, e), M, P)
<1> DEFINE F == Folded(f, e)
           G == Folded(g, e)
<1>1. CASE e.kind \notin CallKinds
  <2>1. IsFold(F) /\ IsFold(G) /\ Same(F, G) /\ F.calls = f.calls /\ G.calls = g.calls
        /\ G.seq = g.seq
    BY <1>1, PlainFolds DEF Like
  <2> HIDE DEF F, G
  <2> QED
    BY <2>1 DEF Like, F, G
<1>2. CASE e.kind \in CallKinds
  <2>1. IsFold(F) /\ IsFold(G) /\ Same(F, G) /\ G.seq = g.seq
    BY <1>2, CallFolds DEF Like, Same
  <2>2. Entry(f, e.call) = Entry(g, e.call)
    BY <1>2 DEF Like, Entry
  <2>3. EntryAfter(f, e) = EntryAfter(g, e) /\ (Touches(f, e) <=> Touches(g, e))
    BY <1>2, <2>2 DEF EntryAfter, Touches, Like
  <2>4. CASE Touches(f, e)
    <3>1. /\ DOMAIN F.calls = DOMAIN f.calls \union {e.call}
          /\ DOMAIN G.calls = DOMAIN g.calls \union {e.call}
          /\ F.calls[e.call] = EntryAfter(f, e) /\ G.calls[e.call] = EntryAfter(g, e)
          /\ \A other \in DOMAIN f.calls : other # e.call => F.calls[other] = f.calls[other]
          /\ \A other \in DOMAIN g.calls : other # e.call => G.calls[other] = g.calls[other]
      BY <1>2, <2>3, <2>4, CallFolds DEF Like
    <3> HIDE DEF F, G
    <3> QED
      BY <1>2, <2>1, <2>3, <3>1 DEF Like, F, G
  <2>5. CASE ~Touches(f, e)
    <3>1. F = f /\ G = g
      BY <1>2, <2>3, <2>5, CallFolds DEF Like
    <3> QED
      BY <3>1
  <2> QED
    BY <2>4, <2>5
<1> QED
  BY <1>1, <1>2

\* What the live fold has no part in: notices, and the calls of programs.
LEMMA LikeAside ==
    ASSUME NEW f, NEW g, NEW M, NEW P, Like(f, g, M, P), M \cap P = {},
           NEW e, e.kind = "notice" \/ (e.kind \in CallKinds /\ e.call \in P)
    PROVE  Like(Folded(f, e), g, M, P)
<1> DEFINE F == Folded(f, e)
<1>1. CASE e.kind = "notice"
  <2>1. F = f
    BY <1>1, PlainFolds DEF Like, CallKinds
  <2> QED
    BY <2>1
<1>2. CASE e.kind \in CallKinds /\ e.call \in P
  <2>1. IsFold(F) /\ Same(F, g)
    BY <1>2, CallFolds DEF Like, Same
  <2>2. \/ F.calls = f.calls
        \/ /\ DOMAIN F.calls = DOMAIN f.calls \union {e.call}
           /\ \A other \in DOMAIN f.calls : other # e.call => F.calls[other] = f.calls[other]
    BY <1>2, CallFolds DEF Like
  <2> HIDE DEF F
  <2> QED
    BY <1>2, <2>1, <2>2 DEF Like, F
<1> QED
  BY <1>1, <1>2

\* Both take up what is new.  The live fold has it before the channel stamps it.
LEMMA LikeApplies ==
    ASSUME NEW f, NEW g, NEW M, NEW P, Like(f, g, M, P), M \cap P = {},
           NEW e, NEW d, IsEvent(e), e.seq \in Nat, e.seq > f.seq, d = [e EXCEPT !.seq = 0],
           e.run \in Nat, f.run \in {0, e.run}
    PROVE  /\ (e.kind \in CallKinds => e.call \in M)
                  => Like(Applied(f, e), Applied(g, d), M, P)
           /\ e.kind = "notice" \/ (e.kind \in CallKinds /\ e.call \in P)
                  => Like(Applied(f, e), g, M, P)
           /\ Applied(f, e).seq = e.seq
           /\ Applied(f, e).run = IF e.kind = "run_started" THEN e.run ELSE f.run
<1>1. d.seq = 0 /\ d.kind = e.kind /\ d.call = e.call /\ d.value = e.value /\ d.run = e.run
  BY DEF IsEvent
<1>2. Folds(f, e) /\ Folds(g, d)
  BY <1>1 DEF Folds, Like, Same
<1>3. PICK f1 : /\ IsFold(f1) /\ Same(f, f1) /\ f1.calls = f.calls /\ f1.seq = e.seq
                /\ Applied(f, e) = Folded(f1, e)
  BY <1>2, TakesUp DEF Like
<1>4. Applied(g, d) = Folded(g, e)
  <2>1. Applied(g, d) = Folded(g, d)
    BY <1>1, <1>2, TakesAsIs DEF Like
  <2>3. Folded(g, d) = Folded(g, e)
    BY <1>1 DEF Folded, Put, Known, Call
  <2> QED
    BY <2>1, <2>3
<1>5. Like(f1, g, M, P)
  BY <1>3 DEF Like, Same
<1>6. IsFold(f1) /\ Folded(f1, e).seq = f1.seq
      /\ Folded(f1, e).run = IF e.kind = "run_started" THEN e.run ELSE f1.run
  <2>1. CASE e.kind \in CallKinds
    <3>1. e.kind # "run_started"
      BY <2>1 DEF CallKinds
    <3> QED
      BY <1>3, <2>1, <3>1, CallFolds
  <2>2. CASE e.kind \notin CallKinds
    BY <1>3, <2>2, PlainFolds
  <2> QED
    BY <2>1, <2>2
<1> QED
  BY <1>3, <1>4, <1>5, <1>6, LikeFolds, LikeAside DEF Same

\* A list is a sequence over its items.
LEMMA ListIsSeq ==
    ASSUME NEW list, NEW n, IsList(list, n), NEW T, \A i \in 1 .. n : list[i] \in T
    PROVE  list \in Seq(T) /\ Len(list) = n /\ DOMAIN list = 1 .. n
<1>1. list \in [1 .. n -> T]
  BY DEF IsList
<1>2. list \in Seq(T)
  BY <1>1, SeqDef DEF IsList
<1> QED
  BY <1>1, <1>2, LenProperties DEF IsList

LEMMA FoldsTwo ==
    ASSUME NEW f, NEW d, NEW e
    PROVE  AllApplied(f, <<d, e>>) = Applied(Applied(f, d), e)
<1> DEFINE list == <<d, e>>
<1>1. DOMAIN list = 1 .. 2 /\ list[1] = d /\ list[2] = e
  OBVIOUS
<1> HIDE DEF list
<1>2. Run!FoldLeft(Applied, f, list) = Applied(Applied(f, list[1]), list[2])
  BY <1>1, Run!FoldTwo
<1> QED
  BY <1>1, <1>2, AllFolds DEF list

LEMMA FoldsThree ==
    ASSUME NEW f, NEW c, NEW d, NEW e
    PROVE  AllApplied(f, <<c, d, e>>) = Applied(Applied(Applied(f, c), d), e)
<1> DEFINE list == <<c, d, e>>
<1>1. DOMAIN list = 1 .. 3 /\ list[1] = c /\ list[2] = d /\ list[3] = e
  OBVIOUS
<1> HIDE DEF list
<1>2. Run!FoldLeft(Applied, f, list) = Applied(Applied(Applied(f, list[1]), list[2]), list[3])
  BY <1>1, Run!FoldThree
<1> QED
  BY <1>1, <1>2, AllFolds DEF list

\* What a fold has had, it passes over when it comes again.
LEMMA Passed ==
    ASSUME NEW f, NEW list, NEW T, list \in Seq(T), \A i \in 1 .. Len(list) : ~Folds(f, list[i])
    PROVE  FoldLeft(Applied, f, list) = f
<1> DEFINE P == {f}
<1>1. f \in P /\ \A a \in P, i \in 1 .. Len(list) : Applied(a, list[i]) \in P
  BY DEF Applied
<1>2. Run!FoldLeft(Applied, f, list) \in P
  <2> HIDE DEF P
  <2> QED
    BY <1>1, Run!FoldStays
<1> QED
  BY <1>2, RunFolds

\* What a reconnect delivers again changes nothing: all of it was seen.
LEMMA RedeliveryIgnored ==
    ASSUME NEW f, NEW events, NEW n, IsList(events, n), IsList(tail, Len(tail)),
           NEW g, g = FoldLeft(Applied, f, events),
           \A i \in 1 .. n : ~Folds(g, events[i]),
           \A i \in DOMAIN tail : ~Folds(g, tail[i])
    PROVE  Redelivered(f, events) = g
<1> DEFINE T == {events[i] : i \in 1 .. n} \union {tail[i] : i \in 1 .. Len(tail)}
<1>1. events \in Seq(T) /\ Len(events) = n /\ tail \in Seq(T) /\ DOMAIN tail = 1 .. Len(tail)
  <2>1. (\A i \in 1 .. n : events[i] \in T) /\ \A i \in 1 .. Len(tail) : tail[i] \in T
    OBVIOUS
  <2> HIDE DEF T
  <2>2. events \in Seq(T) /\ Len(events) = n
    BY <2>1, ListIsSeq
  <2>3. tail \in Seq(T) /\ DOMAIN tail = 1 .. Len(tail)
    BY <2>1, ListIsSeq
  <2> QED
    BY <2>2, <2>3
<1> HIDE DEF T
<1> DEFINE one == events \o tail
<1>2. one \in Seq(T)
  BY <1>1
<1>3. Run!FoldLeft(Applied, f, one) = Run!FoldLeft(Applied, Run!FoldLeft(Applied, f, events), tail)
  BY <1>1, Run!FoldConcat
<1>4. Run!FoldLeft(Applied, f, one \o events)
        = Run!FoldLeft(Applied, Run!FoldLeft(Applied, f, one), events)
  <2> HIDE DEF one
  <2> QED
    BY <1>1, <1>2, Run!FoldConcat
<1>5. Run!FoldLeft(Applied, f, events) = g
  BY RunFolds
<1>6. Run!FoldLeft(Applied, g, tail) = g /\ Run!FoldLeft(Applied, g, events) = g
  BY <1>1, RunFolds, Passed
<1> QED
  BY <1>3, <1>4, <1>5, <1>6, RunFolds DEF Redelivered

-----------------------------------------------------------------------------
(* What is published                                                       *)

\* Everyone who follows a run.
Followed ==
    /\ seq \in Nat /\ turn.no \in Nat
    /\ DOMAIN states = 1 .. turn.no /\ DOMAIN readers = 1 .. turn.no
    /\ \A t \in 1 .. turn.no :
           /\ IsFold(readers[t]) /\ readers[t].run = t /\ readers[t].seq <= seq
           /\ IsFold(states[t])
\* What was published last came to everyone it is for.
TailKnown ==
    /\ IsList(tail, Len(tail))
    /\ \A i \in DOMAIN tail :
           /\ tail[i].seq \in 1 .. seq
           /\ \A t \in DOMAIN readers : ~Folds(readers[t], tail[i])

Of(fold, t) == IF t \in DOMAIN fold THEN fold[t] ELSE Fresh

\* What publishing the events makes of the channel.
Published(events, n, no, folds, of, stamped) ==
    /\ IsList(of, n) /\ IsList(stamped, n)
    /\ \A i \in 1 .. n : /\ of[i] = [events[i] EXCEPT !.run = no]
                         /\ stamped[i] = [of[i] EXCEPT !.seq = seq + i]
    /\ seq' = seq + n /\ tail' = stamped
    /\ DOMAIN states' = 1 .. no /\ DOMAIN readers' = 1 .. no
    /\ \A t \in 1 .. no : t # no => states'[t] = states[t] /\ readers'[t] = readers[t]
    /\ no \in 1 .. no =>
          /\ folds => states'[no] = FoldLeft(Applied, Of(states, no), of)
          /\ ~folds => states'[no] = Of(states, no)
          /\ readers'[no] = Redelivered(Of(readers, no), stamped)

\* What PublishesAs makes of the live states, of the consumers and of the tail.
LEMMA PublishingIs ==
    ASSUME Followed, TailKnown, NEW n \in Nat \ {0}, NEW events, IsList(events, n),
           \A i \in 1 .. n : IsEvent(events[i]) /\ events[i].seq = 0,
           NEW no \in {turn.no, turn.no + 1}, NEW folds, PublishesAs(no, events, folds)
    PROVE  \E of, stamped : Published(events, n, no, folds, of, stamped)
<1> DEFINE of == [i \in DOMAIN events |-> [events[i] EXCEPT !.run = no]]
           stamped == [i \in DOMAIN of |-> [of[i] EXCEPT !.seq = seq + i]]
<1>1. DOMAIN events = 1 .. n /\ Len(events) = n
  <2> DEFINE T == {events[i] : i \in 1 .. n}
  <2>1. \A i \in 1 .. n : events[i] \in T
    OBVIOUS
  <2> HIDE DEF T
  <2> QED
    BY <2>1, ListIsSeq
<1>2. IsList(of, n) /\ IsList(stamped, n)
      /\ \A i \in 1 .. n : /\ of[i] = [events[i] EXCEPT !.run = no]
                           /\ stamped[i] = [of[i] EXCEPT !.seq = seq + i]
  BY <1>1 DEF IsList
<1>3. /\ seq' = seq + n /\ tail' = stamped
      /\ states' = [t \in 1..no |-> IF t = no /\ folds THEN FoldLeft(Applied, Of(states, t), of)
                                    ELSE Of(states, t)]
      /\ readers' = [t \in 1..no |-> Redelivered(Of(readers, t), stamped)]
  BY <1>1 DEF PublishesAs, Of
<1> HIDE DEF of, stamped
<1>4. no \in Nat /\ \A t \in 1 .. no : t # no => t \in 1 .. turn.no
  BY DEF Followed
<1>5. ASSUME NEW t \in 1 .. no, t # no
      PROVE  states'[t] = states[t] /\ readers'[t] = readers[t]
  <2>1. t \in 1 .. turn.no /\ Of(states, t) = states[t] /\ Of(readers, t) = readers[t]
    BY <1>4, <1>5 DEF Followed, Of
  <2>2. \A i \in 1 .. n : stamped[i].run = no
    <3> SUFFICES ASSUME NEW i \in 1 .. n PROVE stamped[i].run = no
      OBVIOUS
    <3>1. of[i] = [kind |-> events[i].kind, call |-> events[i].call, value |-> events[i].value,
                   run |-> no, seq |-> events[i].seq]
      BY <1>2 DEF IsEvent
    <3>2. stamped[i] = [of[i] EXCEPT !.seq = seq + i]
      BY <1>2
    <3> QED
      BY <3>1, <3>2
  <2>3. readers[t].run = t /\ t # 0 /\ no # 0
    BY <2>1, <1>4 DEF Followed
  <2>4. \A i \in 1 .. n : ~Folds(readers[t], stamped[i])
    BY <2>2, <2>3, <1>5 DEF Folds
  <2> DEFINE T == {stamped[i] : i \in 1 .. n}
  <2>5. stamped \in Seq(T) /\ Len(stamped) = n
    BY <1>2, ListIsSeq
  <2> HIDE DEF T
  <2>6. FoldLeft(Applied, readers[t], stamped) = readers[t]
    BY <2>4, <2>5, Passed
  <2>7. \A i \in DOMAIN tail : ~Folds(readers[t], tail[i])
    BY <2>1 DEF TailKnown, Followed
  <2>8. Redelivered(readers[t], stamped) = readers[t]
    BY <1>2, <2>4, <2>6, <2>7, RedeliveryIgnored DEF TailKnown
  <2> QED
    BY <1>3, <1>4, <1>5, <2>1, <2>8
<1>6. no \in 1 .. no =>
         /\ folds => states'[no] = FoldLeft(Applied, Of(states, no), of)
         /\ ~folds => states'[no] = Of(states, no)
         /\ readers'[no] = Redelivered(Of(readers, no), stamped)
  BY <1>3
<1>7. DOMAIN states' = 1 .. no /\ DOMAIN readers' = 1 .. no
  BY <1>3
<1> QED
  BY <1>2, <1>3, <1>5, <1>6, <1>7 DEF Published

\* Whose event it is: the live fold has those of the run and of its model's
\* calls, a consumer the notices and the programs' calls as well.
ForBoth(e, M) == e.kind \in CallKinds => e.call \in M
ForReaders(e, P) == e.kind = "notice" \/ (e.kind \in CallKinds /\ e.call \in P)

\* The events of a run, and what the channel makes of them.
StampedAs(of, stamped, no, s, n) ==
    /\ IsList(of, n) /\ IsList(stamped, n)
    /\ \A i \in 1 .. n : /\ IsEvent(stamped[i]) /\ stamped[i].seq = s + i
                         /\ stamped[i].run = no
                         /\ of[i] = [stamped[i] EXCEPT !.seq = 0]
EventsFit(events, n, folds, M, P) ==
    \A i \in 1 .. n : IF folds THEN ForBoth(events[i], M) ELSE ForReaders(events[i], P)
Follows(f, g, no, s, M, P) ==
    Like(f, g, M, P) /\ f.run \in {0, no} /\ f.seq <= s

Along(f, g, no, s, of, stamped, n, folds, M, P) ==
    /\ M \cap P = {} /\ no \in Nat \ {0} /\ s \in Nat /\ n \in Nat \ {0}
    /\ Follows(f, g, no, s, M, P) /\ StampedAs(of, stamped, no, s, n)
    /\ f.run = no \/ stamped[1].kind = "run_started"
    /\ EventsFit(of, n, folds, M, P)
Alike(F, G, g, no, last, folds, M, P) ==
    /\ folds => Like(F, G, M, P)
    /\ ~folds => Like(F, g, M, P)
    /\ F.run = no /\ F.seq = last

\* Event by event, a consumer's fold stays like the live one.
LEMMA LikeAlong ==
    ASSUME NEW f, NEW g, NEW no, NEW s, NEW of, NEW stamped, NEW n, NEW folds, NEW M, NEW P,
           Along(f, g, no, s, of, stamped, n, folds, M, P)
    PROVE  Alike(AllApplied(f, stamped), AllApplied(g, of), g, no, s + n, folds, M, P)
<1> USE DEF Along, StampedAs, EventsFit, Follows
<1>1. n \in Nat /\ DOMAIN stamped = 1 .. n /\ DOMAIN of = 1 .. n
  BY DEF IsList
<1>2. PICK rf : Run!IsRun(rf, f, stamped, n)
  BY <1>1, Run!RunExists
<1>3. PICK rg : Run!IsRun(rg, g, of, n)
  BY <1>1, Run!RunExists
<1>4. AllApplied(f, stamped) = rf[n] /\ AllApplied(g, of) = rg[n]
  BY <1>1, <1>2, <1>3, Run!FoldIsRun, RunFolds DEF AllApplied
<1> DEFINE Live(m) == IF folds THEN rg[m] ELSE g
           Holds(m) == /\ Like(rf[m], Live(m), M, P) /\ rf[m].run \in {0, no}
                       /\ rf[m].seq <= s + m
                       /\ m > 0 => rf[m].seq = s + m
                       /\ rf[m].run = no \/ (m = 0 /\ stamped[1].kind = "run_started")
           Good == {m \in Nat : m <= n => Holds(m)}
<1>5. 0 \in Good
  <2>1. rf[0] = f /\ Live(0) = g
    BY <1>2, <1>3 DEF Run!IsRun
  <2> HIDE DEF Live
  <2> QED
    BY <2>1
<1>6. \A m \in Nat : m \in Good => m + 1 \in Good
  <2> SUFFICES ASSUME NEW m \in Nat, m + 1 <= n, Holds(m) PROVE Holds(m + 1)
    OBVIOUS
  <2> DEFINE i == m + 1
             e == stamped[i]
             d == of[i]
  <2>1. i \in 1 .. n /\ i - 1 = m
    OBVIOUS
  <2>2. rf[i] = Applied(rf[m], e) /\ rg[i] = Applied(rg[m], d)
    BY <2>1, <1>2, <1>3 DEF Run!IsRun
  <2>3. /\ IsEvent(e) /\ e.seq = s + i /\ e.run = no /\ d = [e EXCEPT !.seq = 0]
        /\ d.kind = e.kind /\ d.call = e.call
    BY <2>1 DEF IsEvent
  <2>4. e.seq \in Nat /\ e.seq > rf[m].seq
    <3>1. rf[m].seq \in Nat
      BY DEF Like, IsFold
    <3> QED
      BY <2>3, <3>1
  <2>5. IF folds THEN ForBoth(d, M) ELSE ForReaders(d, P)
    BY <2>1
  <2>6. m = 0 /\ rf[m].run # no => e.kind = "run_started"
    OBVIOUS
  <2> HIDE DEF i, e, d
  <2>7. /\ ForBoth(e, M) => Like(Applied(rf[m], e), Applied(Live(m), d), M, P)
        /\ ForReaders(e, P) => Like(Applied(rf[m], e), Live(m), M, P)
        /\ Applied(rf[m], e).seq = e.seq
        /\ Applied(rf[m], e).run = IF e.kind = "run_started" THEN e.run ELSE rf[m].run
    <3>1. Like(rf[m], Live(m), M, P) /\ rf[m].run \in {0, e.run} /\ e.run \in Nat
      BY <2>3
    <3> HIDE DEF Live, Holds
    <3> QED
      BY <3>1, <2>3, <2>4, LikeApplies DEF ForBoth, ForReaders
  <2>8. Like(rf[i], Live(i), M, P)
    BY <2>2, <2>3, <2>5, <2>7 DEF ForBoth, ForReaders
  <2>9. rf[i].seq = s + i /\ rf[i].run = no
    BY <2>2, <2>3, <2>6, <2>7
  <2> HIDE DEF Live
  <2> QED
    BY <2>1, <2>8, <2>9 DEF i
<1>7. n \in Good
  <2> HIDE DEF Good
  <2> QED
    BY <1>1, <1>5, <1>6, Run!Induction
<1>8. Holds(n)
  BY <1>1, <1>7
<1> QED
  BY <1>1, <1>4, <1>8 DEF Alike

\* The events folded, as they are and as they are stamped.
Folding(events, n, no, folds) ==
    \E of, stamped :
       /\ IsList(of, n) /\ IsList(stamped, n)
       /\ \A i \in 1 .. n : /\ of[i] = [events[i] EXCEPT !.run = no]
                            /\ stamped[i] = [of[i] EXCEPT !.seq = seq + i]
       /\ folds => states'[no] = AllApplied(Of(states, no), of)
       /\ ~folds => states'[no] = Of(states, no)
       /\ readers'[no] = AllApplied(Of(readers, no), stamped)

\* What a step may publish, and where the followers of the run are then.
Publishable(events, n, no, folds) ==
    /\ n \in Nat \ {0} /\ IsList(events, n) /\ no \in {turn.no, turn.no + 1}
    /\ \A i \in 1 .. n : IsEvent(events[i]) /\ events[i].seq = 0
    /\ no = turn.no \/ events[1].kind = "run_started"
CaughtUp(no, first, M, P) ==
    no # 0 => /\ Like(Of(readers, no), Of(states, no), M, P)
              /\ Of(readers, no).run \in {0, no}
              /\ Of(readers, no).run = no \/ first.kind = "run_started"
              /\ Of(readers, no).seq <= seq

\* Publishing keeps every follower of a run up with its live state.
LEMMA Publishing ==
    ASSUME Followed, TailKnown, NEW n, NEW events, NEW no, NEW folds,
           Publishable(events, n, no, folds), PublishesAs(no, events, folds), turn'.no = no,
           NEW M, NEW P, M \cap P = {},
           CaughtUp(no, events[1], M, P), EventsFit(events, n, folds, M, P)
    PROVE  /\ Followed' /\ TailKnown'
           /\ \A t \in 1 .. no : t # no => states'[t] = states[t] /\ readers'[t] = readers[t]
           /\ no # 0 => Like(readers'[no], states'[no], M, P)
           /\ no # 0 => Folding(events, n, no, folds)
<1> USE DEF Publishable
<1>1. PICK of, stamped : Published(events, n, no, folds, of, stamped)
  BY PublishingIs
<1> USE DEF Published
<1>0. IsList(of, n) /\ IsList(stamped, n)
  BY <1>1
<1>2. seq \in Nat /\ no \in Nat /\ (no # 0 => no \in 1 .. no)
  BY DEF Followed
<1>3. ASSUME NEW i \in 1 .. n
      PROVE  /\ IsEvent(stamped[i]) /\ stamped[i].seq = seq + i /\ stamped[i].run = no
             /\ of[i] = [stamped[i] EXCEPT !.seq = 0]
             /\ stamped[i].kind = events[i].kind /\ of[i].kind = events[i].kind
             /\ of[i].call = events[i].call
  <2>1. of[i] = [kind |-> events[i].kind, call |-> events[i].call, value |-> events[i].value,
                 run |-> no, seq |-> 0]
    BY <1>1 DEF IsEvent
  <2>2. stamped[i] = [kind |-> events[i].kind, call |-> events[i].call, value |-> events[i].value,
                      run |-> no, seq |-> seq + i]
    <3>1. stamped[i] = [of[i] EXCEPT !.seq = seq + i]
      BY <1>1
    <3> QED
      BY <2>1, <3>1
  <2> QED
    BY <2>1, <2>2 DEF IsEvent
<1> DEFINE f == Of(readers, no)
           g == Of(states, no)
           F == AllApplied(f, stamped)
           G == AllApplied(g, of)
<1>4. ASSUME no # 0
      PROVE  /\ folds => Like(F, G, M, P)
             /\ ~folds => Like(F, g, M, P)
             /\ F.run = no /\ F.seq = seq + n
  <2>1. EventsFit(of, n, folds, M, P)
    BY <1>3 DEF ForBoth, ForReaders, EventsFit
  <2>2. f.run = no \/ stamped[1].kind = "run_started"
    <3>1. 1 \in 1 .. n
      OBVIOUS
    <3>2. stamped[1].kind = events[1].kind
      BY <1>3, <3>1
    <3> QED
      BY <3>2, <1>4 DEF CaughtUp
  <2>3. Follows(f, g, no, seq, M, P) /\ no \in Nat \ {0}
    BY <1>2, <1>4 DEF Follows, CaughtUp
  <2>4. StampedAs(of, stamped, no, seq, n)
    BY <1>0, <1>3 DEF StampedAs
  <2> HIDE DEF f, g
  <2> QED
    <3>1. Along(f, g, no, seq, of, stamped, n, folds, M, P)
      BY <1>2, <2>1, <2>2, <2>3, <2>4 DEF Along
    <3>2. Alike(AllApplied(f, stamped), AllApplied(g, of), g, no, seq + n, folds, M, P)
      BY <3>1, LikeAlong
    <3> QED
      BY <3>2 DEF Alike
<1> HIDE DEF F, G, f, g
<1>5. ASSUME no # 0 PROVE readers'[no] = F
  <2>0. F.seq = seq + n
    BY <1>4, <1>5
  <2>1. ASSUME NEW i \in 1 .. n PROVE ~Folds(F, stamped[i])
    <3>1. stamped[i].seq = seq + i
      BY <1>3
    <3> QED
      BY <1>2, <2>0, <3>1 DEF Folds
  <2>2. \A i \in DOMAIN tail : ~Folds(F, tail[i])
    BY <1>2, <2>0 DEF Folds, TailKnown
  <2>3. Redelivered(f, stamped) = F
    BY <1>1, <2>1, <2>2, RedeliveryIgnored DEF F, AllApplied, TailKnown
  <2> QED
    BY <1>1, <1>2, <1>5, <2>3 DEF f
<1>6. no # 0 => Like(readers'[no], states'[no], M, P)
  BY <1>1, <1>2, <1>4, <1>5 DEF F, G, f, g, AllApplied
<1>7. Followed'
  <2>1. seq' \in Nat /\ turn'.no \in Nat
    BY <1>1, <1>2
  <2>2. ASSUME NEW t \in 1 .. no
        PROVE  /\ IsFold(readers'[t]) /\ readers'[t].run = t /\ readers'[t].seq <= seq'
               /\ IsFold(states'[t])
    <3>1. CASE t = no
      <4>1. no # 0
        OBVIOUS
      <4>2. F.run = no /\ F.seq = seq + n /\ readers'[no] = F
        BY <4>1, <1>4, <1>5
      <4>3. IsFold(readers'[no]) /\ IsFold(states'[no])
        BY <4>1, <1>6 DEF Like
      <4>4. seq' = seq + n
        BY <1>1
      <4> QED
        BY <3>1, <4>2, <4>3, <4>4, <1>2
    <3>2. CASE t # no
      <4>1. t \in 1 .. turn.no
        BY <3>2 DEF Followed
      <4>2. IsFold(readers[t]) /\ readers[t].run = t /\ readers[t].seq <= seq
            /\ readers[t].seq \in Nat /\ IsFold(states[t])
        BY <4>1 DEF Followed, IsFold
      <4> QED
        BY <3>2, <4>2, <1>1, <1>2
    <3> QED
      BY <3>1, <3>2
  <2> QED
    BY <1>1, <2>1, <2>2 DEF Followed
<1>8. TailKnown'
  <2>1. IsList(stamped, Len(stamped)) /\ DOMAIN stamped = 1 .. n
    <3>1. Len(stamped) = n /\ DOMAIN stamped = 1 .. n
      <4> DEFINE T == {stamped[i] : i \in 1 .. n}
      <4>1. \A i \in 1 .. n : stamped[i] \in T
        OBVIOUS
      <4> HIDE DEF T
      <4> QED
        BY <1>0, <4>1, ListIsSeq
    <3> QED
      BY <1>0, <3>1
  <2>2. ASSUME NEW i \in 1 .. n
        PROVE  /\ stamped[i].seq \in 1 .. seq'
               /\ \A t \in 1 .. no : ~Folds(readers'[t], stamped[i])
    <3>1. stamped[i].seq = seq + i /\ stamped[i].run = no
      BY <1>3
    <3>2. stamped[i].seq \in 1 .. seq'
      BY <3>1, <1>1, <1>2
    <3>3. ASSUME NEW t \in 1 .. no PROVE ~Folds(readers'[t], stamped[i])
      <4>1. CASE t = no
        <5>1. no # 0 /\ readers'[no].seq = seq + n
          BY <1>4, <1>5, <4>1
        <5> QED
          BY <3>1, <4>1, <5>1, <1>2 DEF Folds
      <4>2. CASE t # no
        <5>1. readers'[t].run = t
          BY <1>1, <1>7 DEF Followed
        <5> QED
          BY <3>1, <4>2, <5>1 DEF Folds
      <4> QED
        BY <4>1, <4>2
    <3> QED
      BY <3>2, <3>3
  <2> QED
    BY <1>1, <2>1, <2>2 DEF TailKnown
<1>9. ASSUME no # 0 PROVE Folding(events, n, no, folds)
  <2>1. /\ folds => states'[no] = AllApplied(Of(states, no), of)
        /\ ~folds => states'[no] = Of(states, no)
        /\ readers'[no] = AllApplied(Of(readers, no), stamped)
    BY <1>1, <1>2, <1>5, <1>9 DEF F, f, AllApplied
  <2>2. \A i \in 1 .. n : /\ of[i] = [events[i] EXCEPT !.run = no]
                           /\ stamped[i] = [of[i] EXCEPT !.seq = seq + i]
    BY <1>1
  <2> QED
    BY <1>0, <2>1, <2>2 DEF Folding
<1> QED
  BY <1>1, <1>6, <1>7, <1>8, <1>9

-----------------------------------------------------------------------------
(* Every run as its followers have it                                      *)

ModelCallsOf(t) == {k \in DOMAIN calls : OfModel(k) /\ calls[k].turn = t}
ModelIds(t) == {calls[k].id : k \in ModelCallsOf(t)}
ProgramIds == {calls[k].id : k \in {j \in DOMAIN calls : ~OfModel(j)}}

\* The inductive invariant of ReaderAgrees.
FoldsLike ==
    /\ Followed /\ TailKnown
    /\ \A t \in 1 .. turn.no : Like(readers[t], states[t], ModelIds(t), ProgramIds)

\* What the model numbers and what a program numbers are told apart.
LEMMA OriginsApart ==
    ASSUME IdInv, NEW j \in DOMAIN calls, OfModel(j), NEW k \in DOMAIN calls, ~OfModel(k)
    PROVE  calls[j].id # calls[k].id
<1>1. IdKnown(calls, endpoint.ids, minted, j) /\ IdKnown(calls, endpoint.ids, minted, k)
  BY DEF IdInv, IdsKnown
<1>2. PICK tag \in {"provider", "call"}, m \in Nat : calls[j].id = Tagged(tag, m)
  <2>1. ModelIdOf(calls[j].id, endpoint.ids, Cardinality(MadeIn(calls, calls[j].turn)), minted)
    BY <1>1 DEF IdKnown, OfModel
  <2>2. \/ \E m \in Nat : calls[j].id = Tagged("provider", m)
        \/ \E m \in 1 .. minted.seq : calls[j].id = Tagged("call", m)
    BY <2>1 DEF ModelIdOf
  <2> QED
    BY <2>2
<1>3. ProgramId(calls[k].id, minted)
  BY <1>1 DEF IdKnown, OfModel
<1>4. CASE \E n \in 1 .. minted.seq : calls[k].id = Tagged("pcall", n)
  <2>1. PICK n : calls[k].id = Tagged("pcall", n)
    BY <1>4
  <2>2. Tagged(tag, m) # Tagged("pcall", n)
    BY TaggedApart
  <2> QED
    BY <1>2, <2>1, <2>2
<1>5. ASSUME NEW p \in DOMAIN minted.nested, NEW n \in 1 .. minted.nested[p],
             calls[k].id = Append(p, n)
      PROVE  calls[j].id # calls[k].id
  <2>1. p \in Ids /\ Len(p) >= 2 /\ n \in Nat
    BY DEF IdInv, MintOk
  <2>2. Len(Append(p, n)) = Len(p) + 1 /\ Len(p) \in Nat
    BY <2>1, ExtendedIds
  <2>3. tag \in Tags
    BY DEF Tags
  <2>4. Len(calls[j].id) = 2
    BY <1>2, <2>3, TaggedIds
  <2> QED
    BY <1>5, <2>1, <2>2, <2>4
<1> QED
  BY <1>3, <1>4, <1>5 DEF ProgramId

Disjoint == \A t : ModelIds(t) \cap ProgramIds = {}

\* No call of the model's has the identity of a program's.
LEMMA IdsDisjoint ==
    ASSUME IdInv PROVE Disjoint
BY OriginsApart DEF Disjoint, ModelIds, ModelCallsOf, ProgramIds
LEMMA IdsDisjointNext == IdInv' => Disjoint'
<1>1. IdInv => Disjoint
  BY IdsDisjoint
<1> QED
  BY <1>1, PTL

\* New calls are none that the folds have heard of.
LEMMA LikeGrows ==
    ASSUME NEW f, NEW g, NEW M, NEW P, Like(f, g, M, P), NEW N, NEW Q,
           M \subseteq N, P \subseteq Q, (N \ M) \cap P = {}
    PROVE  Like(f, g, N, Q)
BY DEF Like

\* Folds that have nothing yet agree.
LEMMA FreshLike ==
    ASSUME NEW M, NEW P
    PROVE  Like(Fresh, Fresh, M, P) /\ IsFold(Fresh) /\ Fresh.run = 0 /\ Fresh.seq = 0
           /\ DOMAIN Fresh.calls = {}
BY DEF Like, Fresh, IsFold, Same

\* A step that publishes, and one that does not.
LEMMA LikeQuiet ==
    ASSUME FoldsLike, IdInv', UNCHANGED channel, turn'.no = turn.no,
           \A t : ModelIds(t) \subseteq ModelIds(t)', ProgramIds \subseteq ProgramIds'
    PROVE  FoldsLike'
<1>1. \A t : ModelIds(t)' \cap ProgramIds' = {}
  BY IdsDisjointNext DEF Disjoint
<1>2. Followed' /\ TailKnown' /\ readers' = readers /\ states' = states
  BY DEF FoldsLike, Followed, TailKnown, channel
<1>3. ASSUME NEW t \in 1 .. turn.no
      PROVE  Like(readers[t], states[t], ModelIds(t)', ProgramIds')
  BY <1>1, LikeGrows DEF FoldsLike
<1> QED
  BY <1>2, <1>3 DEF FoldsLike

\* A fold of one event, whether it takes it up or has had it.
Effects(f, e, F) ==
    /\ e.kind \notin CallKinds => F.calls = f.calls
    /\ DOMAIN f.calls \subseteq DOMAIN F.calls
    /\ \A id \in DOMAIN f.calls :
          e.kind \notin CallKinds \/ id # e.call => F.calls[id] = f.calls[id]
    /\ e.kind \notin {"run_started", "run_finished", "run_failed"} => F.status = f.status
    /\ Folds(f, e) /\ e.kind \in {"args", "call_started"} => e.call \in DOMAIN F.calls
    /\ Folds(f, e) /\ e.kind = "call_finished" /\ e.call \in DOMAIN f.calls
          => F.calls[e.call].status = e.value
    /\ Folds(f, e) /\ e.kind = "run_started" => F.status = "running"
    /\ Folds(f, e) /\ e.kind = "run_failed" => F.status = "failed"
    /\ Folds(f, e) /\ e.kind = "run_finished"
          => F.status = IF e.value.cancelled THEN "cancelled" ELSE "done"

\* An event, delivered, has those effects.
LEMMA AppliedIs ==
    ASSUME NEW f, IsFold(f), NEW e, e.seq \in Nat
    PROVE  IsFold(Applied(f, e)) /\ Effects(f, e, Applied(f, e))
<1> USE DEF Effects
<1> DEFINE F == Applied(f, e)
<1>1. CASE ~Folds(f, e)
  BY <1>1 DEF Applied
<1>2. CASE Folds(f, e)
  <2>1. PICK g : /\ IsFold(g) /\ Same(f, g) /\ g.calls = f.calls /\ F = Folded(g, e)
    BY <1>2, TakesUp
  <2> HIDE DEF F
  <2>2. g.status = f.status
    BY <2>1 DEF Same
  <2>3. CASE e.kind \in CallKinds
    <3>1. e.kind \notin {"run_started", "run_finished", "run_failed"}
      BY <2>3 DEF CallKinds
    <3>2. /\ IsFold(F) /\ F.status = g.status
          /\ ~Touches(g, e) => F = g
          /\ Touches(g, e) =>
                /\ DOMAIN F.calls = DOMAIN g.calls \union {e.call}
                /\ F.calls[e.call] = EntryAfter(g, e)
                /\ \A other \in DOMAIN g.calls : other # e.call => F.calls[other] = g.calls[other]
      BY <2>1, <2>3, CallFolds
    <3>3. e.kind = "call_finished" => EntryAfter(g, e).status = e.value
      BY <2>1, <2>3, EntryIs
    <3> QED
      BY <2>1, <2>2, <2>3, <3>1, <3>2, <3>3 DEF Touches, F
  <2>4. CASE e.kind \notin CallKinds
    <3>1. /\ IsFold(F) /\ F.calls = g.calls
          /\ F.status = CASE e.kind = "run_started" -> "running"
                          [] e.kind = "run_finished"
                                -> (IF e.value.cancelled THEN "cancelled" ELSE "done")
                          [] e.kind = "run_failed" -> "failed"
                          [] OTHER -> g.status
      BY <2>1, <2>4, PlainFolds
    <3>2. e.kind \notin {"args", "call_started", "call_finished"}
      BY <2>4 DEF CallKinds
    <3> QED
      BY <2>1, <2>2, <2>4, <3>1, <3>2 DEF F
  <2> QED
    BY <2>3, <2>4
<1> QED
  BY <1>1, <1>2

CallsGrow ==
    (\A t : ModelIds(t) \subseteq ModelIds(t)') /\ ProgramIds \subseteq ProgramIds'

\* Whatever is published, consumers and live states agree afterwards, and the
\* turns before are left alone.
LEMMA Publish ==
    ASSUME IdInv, IdInv', FoldsLike, CallsGrow, NEW events, NEW n, NEW no, NEW folds,
           Publishable(events, n, no, folds), PublishesAs(no, events, folds), turn'.no = no,
           NEW M, \A t : t = no => M = ModelIds(t)',
           EventsFit(events, n, folds, M, ProgramIds')
    PROVE  /\ FoldsLike'
           /\ \A t \in 1 .. turn.no : t # no => states'[t] = states[t] /\ readers'[t] = readers[t]
           /\ no # 0 => Folding(events, n, no, folds)
<1> DEFINE P == ProgramIds'
<1>1. \A t : ModelIds(t)' \cap P = {}
  BY IdsDisjointNext DEF Disjoint
<1>2. \A t : ModelIds(t) \subseteq ModelIds(t)' /\ ProgramIds \subseteq P
  BY DEF CallsGrow
<1>3. turn.no \in Nat /\ Followed /\ TailKnown
  BY DEF IdInv, TurnOk, FoldsLike
<1>4. \A t \in 1 .. turn.no : Like(readers[t], states[t], ModelIds(t)', P)
  <2> SUFFICES ASSUME NEW t \in 1 .. turn.no
               PROVE  Like(readers[t], states[t], ModelIds(t)', P)
    OBVIOUS
  <2>1. (ModelIds(t)' \ ModelIds(t)) \cap ProgramIds = {}
    BY <1>1, <1>2
  <2>2. Like(readers[t], states[t], ModelIds(t), ProgramIds)
    BY DEF FoldsLike
  <2> HIDE DEF P
  <2> QED
    BY <1>2, <2>1, <2>2, LikeGrows
<1>5. CaughtUp(no, events[1], M, P)
  <2> SUFFICES ASSUME no # 0
               PROVE  /\ Like(Of(readers, no), Of(states, no), M, P)
                      /\ Of(readers, no).run \in {0, no}
                      /\ Of(readers, no).run = no \/ events[1].kind = "run_started"
                      /\ Of(readers, no).seq <= seq
    BY DEF CaughtUp
  <2>1. DOMAIN readers = 1 .. turn.no /\ DOMAIN states = 1 .. turn.no /\ seq \in Nat
    BY <1>3 DEF Followed
  <2>2. CASE no = turn.no
    <3>1. no \in 1 .. turn.no
      BY <1>3, <2>2
    <3>2. Of(readers, no) = readers[no] /\ Of(states, no) = states[no]
      BY <2>1, <3>1 DEF Of
    <3>3. readers[no].run = no /\ readers[no].seq <= seq
      BY <1>3, <3>1 DEF Followed
    <3> QED
      BY <1>4, <3>1, <3>2, <3>3
  <2>3. CASE no # turn.no
    <3>1. no = turn.no + 1 /\ events[1].kind = "run_started"
      BY <2>3 DEF Publishable
    <3>2. no \notin 1 .. turn.no
      BY <1>3, <3>1
    <3>3. Of(readers, no) = Fresh /\ Of(states, no) = Fresh
      BY <2>1, <3>2 DEF Of
    <3>4. 0 <= seq
      BY <2>1
    <3> QED
      BY <3>1, <3>3, <3>4, FreshLike
  <2> QED
    BY <2>2, <2>3
<1>0. M \cap P = {} /\ EventsFit(events, n, folds, M, P)
  BY <1>1
<1> HIDE DEF P
<1>6. /\ Followed' /\ TailKnown'
      /\ \A t \in 1 .. no : t # no => states'[t] = states[t] /\ readers'[t] = readers[t]
      /\ no # 0 => Like(readers'[no], states'[no], M, P)
      /\ no # 0 => Folding(events, n, no, folds)
  BY <1>0, <1>3, <1>5, Publishing
<1>7. \A t \in 1 .. no : t # no => t \in 1 .. turn.no
  BY <1>3 DEF Publishable
<1>8. \A t \in 1 .. turn.no : t \in 1 .. no
  BY <1>3 DEF Publishable
<1>9. \A t \in 1 .. no : Like(readers'[t], states'[t], ModelIds(t)', P)
  <2> SUFFICES ASSUME NEW t \in 1 .. no PROVE Like(readers'[t], states'[t], ModelIds(t)', P)
    OBVIOUS
  <2>1. CASE t = no
    <3>1. no # 0
      OBVIOUS
    <3> QED
      BY <1>6, <2>1, <3>1
  <2>2. CASE t # no
    BY <1>4, <1>6, <1>7, <2>2
  <2> QED
    BY <2>1, <2>2
<1> QED
  BY <1>6, <1>8, <1>9 DEF FoldsLike, P

\* One event published, of the run there is.
OnePublished(e, folds) ==
    LET no == turn.no
        F == readers'[no]
        f == readers[no]
    IN  /\ e.kind \notin CallKinds => F.calls = f.calls
        /\ DOMAIN f.calls \subseteq DOMAIN F.calls
        /\ \A id \in DOMAIN f.calls :
              e.kind \notin CallKinds \/ id # e.call => F.calls[id] = f.calls[id]
        /\ e.kind \in {"args", "call_started"} => e.call \in DOMAIN F.calls
        /\ e.kind = "call_finished" /\ e.call \in DOMAIN f.calls
              => F.calls[e.call].status = e.value
        /\ ~folds \/ e.kind \notin {"run_started", "run_finished", "run_failed"}
              => states'[no].status = states[no].status
        /\ folds /\ e.kind = "run_failed" => states'[no].status = "failed"
        /\ folds /\ e.kind = "run_finished"
              => states'[no].status = IF e.value.cancelled THEN "cancelled" ELSE "done"

\* The same of one event, and what it changes of the turn's folds.
LEMMA PublishOne ==
    ASSUME IdInv, IdInv', FoldsLike, CallsGrow, NEW e, IsEvent(e), e.seq = 0, NEW folds,
           PublishesAs(turn.no, <<e>>, folds), turn'.no = turn.no,
           NEW M, \A t : t = turn.no => M = ModelIds(t)',
           IF folds THEN ForBoth(e, M) ELSE ForReaders(e, ProgramIds')
    PROVE  /\ FoldsLike'
           /\ \A t \in 1 .. turn.no : t # turn.no => readers'[t] = readers[t]
           /\ turn.no # 0 => OnePublished(e, folds)
<1> DEFINE no == turn.no
           events == <<e>>
<1>1. IsList(events, 1) /\ events[1] = e
  BY DEF IsList
<1>2. \A i \in 1 .. 1 : i = 1
  OBVIOUS
<1>3. Publishable(events, 1, no, folds) /\ turn'.no = no
  BY <1>1, <1>2 DEF Publishable
<1>4. EventsFit(events, 1, folds, M, ProgramIds')
  BY <1>1, <1>2 DEF EventsFit
<1>5. no \in Nat /\ Followed
  BY DEF IdInv, TurnOk, FoldsLike
<1>6. PublishesAs(no, events, folds)
  OBVIOUS
<1>7. \A t : t = no => M = ModelIds(t)'
  OBVIOUS
<1> HIDE DEF events, no
<1>8. /\ FoldsLike'
      /\ \A t \in 1 .. turn.no : t # no => readers'[t] = readers[t]
      /\ no # 0 => Folding(events, 1, no, folds)
  BY <1>3, <1>4, <1>6, <1>7, Publish
<1>9. ASSUME no # 0 PROVE OnePublished(e, folds)
  <2>1. no = turn.no /\ no \in 1 .. turn.no
    BY <1>5, <1>9 DEF no
  <2>2. Of(states, no) = states[no] /\ Of(readers, no) = readers[no]
    BY <1>5, <2>1 DEF Of, Followed
  <2>3. PICK of, stamped :
           /\ IsList(of, 1) /\ IsList(stamped, 1)
           /\ \A i \in 1 .. 1 : /\ of[i] = [events[i] EXCEPT !.run = no]
                                /\ stamped[i] = [of[i] EXCEPT !.seq = seq + i]
           /\ folds => states'[no] = AllApplied(Of(states, no), of)
           /\ ~folds => states'[no] = Of(states, no)
           /\ readers'[no] = AllApplied(Of(readers, no), stamped)
    BY <1>8, <1>9 DEF Folding
  <2> DEFINE d == of[1]
             s == stamped[1]
  <2>4. of = <<d>> /\ stamped = <<s>>
    BY <2>3 DEF IsList
  <2>5. d = [kind |-> e.kind, call |-> e.call, value |-> e.value, run |-> no, seq |-> 0]
    BY <1>1, <2>3 DEF IsEvent
  <2>6. s = [kind |-> e.kind, call |-> e.call, value |-> e.value, run |-> no, seq |-> seq + 1]
    <3>1. s = [d EXCEPT !.seq = seq + 1]
      BY <2>3
    <3> QED
      BY <2>5, <3>1
  <2> HIDE DEF d, s
  <2>7. /\ folds => states'[no] = Applied(states[no], d)
        /\ ~folds => states'[no] = states[no]
        /\ readers'[no] = Applied(readers[no], s)
    BY <2>2, <2>3, <2>4, FoldsOne
  <2>8. /\ IsFold(readers[no]) /\ IsFold(states[no]) /\ readers[no].run = no
        /\ readers[no].seq <= seq /\ seq \in Nat /\ readers[no].seq \in Nat
        /\ states[no].run = no /\ states[no].seq = 0
    <3>1. Like(readers[no], states[no], ModelIds(no), ProgramIds)
      BY <2>1 DEF FoldsLike
    <3> QED
      BY <1>5, <2>1, <3>1 DEF Followed, Like, Same, IsFold
  <2>9. Folds(states[no], d) /\ Folds(readers[no], s) /\ d.seq \in Nat /\ s.seq \in Nat
    BY <2>5, <2>6, <2>8 DEF Folds
  <2>10. d.kind = e.kind /\ d.value = e.value /\ s.kind = e.kind /\ s.call = e.call
         /\ s.value = e.value
    BY <2>5, <2>6
  <2>11. Effects(readers[no], s, readers'[no])
    BY <2>7, <2>8, <2>9, AppliedIs
  <2>12. folds => Effects(states[no], d, states'[no])
    BY <2>7, <2>8, <2>9, AppliedIs
  <2>13. /\ ~folds \/ e.kind \notin {"run_started", "run_finished", "run_failed"}
               => states'[no].status = states[no].status
         /\ folds /\ e.kind = "run_failed" => states'[no].status = "failed"
         /\ folds /\ e.kind = "run_finished"
               => states'[no].status = IF e.value.cancelled THEN "cancelled" ELSE "done"
    BY <2>7, <2>9, <2>10, <2>12 DEF Effects
  <2> QED
    BY <2>1, <2>9, <2>10, <2>11, <2>13 DEF OnePublished, Effects
<1> QED
  BY <1>8, <1>9 DEF no

-----------------------------------------------------------------------------
(* Where each call stands                                                  *)

Verdicts == {"ok", "timeout", "refused"}
AloneId(id) == id[1] = "pcall"

\* A consumer's fold of the turn "c" is of has the call.
Heard(c, rs) == c.id \in DOMAIN rs[c.turn].calls

\* A call as the phase of its turn allows it, and what of it the followers of
\* its turn have.
ModelStands(c, no, phase) ==
    /\ c.parent = 0 /\ ~AloneId(c.id)
    /\ phase = "over" \/ c.turn # no => c.phase \in {"over", "halted"}
    /\ phase = "streaming" /\ c.turn = no => c.phase = "forming"
    /\ phase = "batch" /\ c.turn = no => c.phase \in {"starting", "running", "completing", "over"}
    /\ c.phase = "over" => c.ended = c.turn
Typed(c, k) ==
    /\ c.origin \in {"model", "program"} /\ c.parent \in Nat /\ c.parent < k
    /\ c.phase \in Phases /\ c.status \in Statuses
    /\ c.phase \in {"completing", "over"} => c.status \in Verdicts
    /\ ~AloneId(c.id) => c.turn # 0
KnownOf(c, no, rs) ==
    /\ no # 0 /\ c.turn = no /\ c.phase \in {"running", "completing"} => Heard(c, rs)
    /\ c.phase = "over" /\ ~AloneId(c.id) /\ c.ended = c.turn
          => Heard(c, rs) /\ rs[c.turn].calls[c.id].status = c.status
Standing(c, k, no, phase, rs) ==
    /\ Typed(c, k) /\ KnownOf(c, no, rs)
    /\ c.origin = "model" => ModelStands(c, no, phase)

\* A program never numbers two calls alike, whatever turns they are of.
ProgramsApart ==
    \A j, k \in DOMAIN calls : j # k /\ ~OfModel(j) /\ ~OfModel(k) => calls[j].id # calls[k].id

\* The inductive invariant of CallsAnswered, beside IdInv and FoldsLike.
AnswerInv ==
    /\ \A k \in DOMAIN calls : Standing(calls[k], k, turn.no, turn.phase, readers)
    /\ ProgramsApart
    /\ turn.phase \in {"over", "streaming", "batch"}
    /\ turn.phase # "over" => turn.no # 0 /\ states[turn.no].status = "running"
    /\ turn.no # 0 /\ states[turn.no].status = "done" =>
           turn.phase = "over" /\ \A k \in Current : calls[k].phase = "over"

\* A call that moves on.
MovedTo(r, phase, status, ended) ==
    [id |-> r.id, origin |-> r.origin, parent |-> r.parent, turn |-> r.turn, tool |-> r.tool,
     phase |-> phase, status |-> status, ended |-> ended]

\* The records EXCEPT makes of a call.
LEMMA Moves ==
    ASSUME NEW r, IsCall(r), NEW x, NEW s
    PROVE  /\ r = MovedTo(r, r.phase, r.status, r.ended)
           /\ [r EXCEPT !.phase = x] = MovedTo(r, x, r.status, r.ended)
           /\ [[r EXCEPT !.phase = x] EXCEPT !.status = s] = MovedTo(r, x, s, r.ended)
           /\ [[r EXCEPT !.status = s] EXCEPT !.phase = x] = MovedTo(r, x, s, r.ended)
           /\ [[r EXCEPT !.phase = x] EXCEPT !.ended = s] = MovedTo(r, x, r.status, s)
<1>1. [r EXCEPT !.phase = x] = MovedTo(r, x, r.status, r.ended)
  BY DEF IsCall, MovedTo
<1>2. [r EXCEPT !.status = s] = MovedTo(r, r.phase, s, r.ended)
  BY DEF IsCall, MovedTo
<1>3. [MovedTo(r, x, r.status, r.ended) EXCEPT !.status = s] = MovedTo(r, x, s, r.ended)
  BY DEF MovedTo
<1>4. [MovedTo(r, x, r.status, r.ended) EXCEPT !.ended = s] = MovedTo(r, x, r.status, s)
  BY DEF MovedTo
<1>5. [MovedTo(r, r.phase, s, r.ended) EXCEPT !.phase = x] = MovedTo(r, x, s, r.ended)
  BY DEF MovedTo
<1>6. r = MovedTo(r, r.phase, r.status, r.ended)
  BY DEF IsCall, MovedTo
<1> QED
  BY <1>1, <1>2, <1>3, <1>4, <1>5, <1>6

\* What the followers of a call's turn have of it, they keep.
Kept(c, rs, after) ==
    c.turn # 0 /\ Heard(c, rs) =>
        Heard(c, after) /\ after[c.turn].calls[c.id] = rs[c.turn].calls[c.id]

\* A call stands as it did when its followers keep what they have of it.
LEMMA StillStands ==
    ASSUME NEW c, NEW k, NEW no, NEW phase, NEW rs, Standing(c, k, no, phase, rs),
           NEW after, Kept(c, rs, after)
    PROVE  Standing(c, k, no, phase, after)
BY DEF Standing, Typed, KnownOf, Kept

\* A call of the model's that may step is of the turn that runs its batch.
LEMMA AtWork ==
    ASSUME AnswerInv, NEW k \in DOMAIN calls, OfModel(k),
           calls[k].phase \in {"starting", "running", "completing"}
    PROVE  calls[k].turn = turn.no /\ turn.phase = "batch"
<1>1. Standing(calls[k], k, turn.no, turn.phase, readers)
  BY DEF AnswerInv
<1> QED
  BY <1>1 DEF AnswerInv, Standing, ModelStands, OfModel

\* Identities of calls that share a fold.
LEMMA IdsDiffer ==
    ASSUME IdInv, AnswerInv, NEW j \in DOMAIN calls, NEW k \in DOMAIN calls, j # k,
           calls[k].turn = turn.no, OfModel(j) => calls[j].turn = turn.no
    PROVE  calls[j].id # calls[k].id
<1>1. CASE OfModel(j)
  BY <1>1 DEF IdInv, IdsApart
<1>2. CASE ~OfModel(j) /\ ~OfModel(k)
  BY <1>2 DEF AnswerInv, ProgramsApart
<1>3. CASE ~OfModel(j) /\ OfModel(k)
  BY <1>3, OriginsApart
<1> QED
  BY <1>1, <1>2, <1>3

\* An event leaves what is known of every call it is not about.
LEMMA OneKeeps ==
    ASSUME IdInv, NEW e, NEW folds, turn.no # 0 => OnePublished(e, folds),
           \A t \in 1 .. turn.no : t # turn.no => readers'[t] = readers[t],
           NEW k \in DOMAIN calls,
           e.kind \notin CallKinds \/ calls[k].id # e.call \/ calls[k].turn # turn.no
    PROVE  Kept(calls[k], readers, readers')
<1> DEFINE c == calls[k]
<1>1. c.turn \in Nat /\ c.turn <= turn.no /\ turn.no \in Nat
  BY DEF IdInv, TurnOk
<1>2. CASE c.turn # 0 /\ c.turn # turn.no
  <2>1. c.turn \in 1 .. turn.no
    BY <1>1, <1>2
  <2> QED
    BY <1>2, <2>1 DEF Kept, Heard
<1>3. CASE c.turn # 0 /\ c.turn = turn.no
  BY <1>3 DEF Kept, Heard, OnePublished
<1> QED
  BY <1>2, <1>3 DEF Kept

\* Before anything ran there is nothing to answer.
LEMMA AnswerInit ==
    ASSUME Init PROVE AnswerInv /\ FoldsLike
<1>1. /\ calls = <<>> /\ turn.no = 0 /\ turn.phase = "over" /\ seq = 0 /\ tail = <<>>
      /\ states = <<>> /\ readers = <<>>
  BY DEF Init
<1>2. DOMAIN calls = {} /\ Current = {}
  BY <1>1 DEF Current
<1>3. 1 .. 0 = {} /\ DOMAIN tail = {} /\ DOMAIN states = {} /\ DOMAIN readers = {}
      /\ IsList(tail, Len(tail))
  BY <1>1 DEF IsList
<1>4. AnswerInv
  BY <1>1, <1>2 DEF AnswerInv, ProgramsApart
<1>5. Followed /\ TailKnown
  BY <1>1, <1>3 DEF Followed, TailKnown
<1> QED
  BY <1>1, <1>3, <1>4, <1>5 DEF FoldsLike

-----------------------------------------------------------------------------
(* The steps of a call                                                     *)

\* The steps that make no call keep the identities of all.
AllSame ==
    /\ DOMAIN calls' = DOMAIN calls
    /\ \A k \in DOMAIN calls : SameCall(calls[k], calls'[k])

\* A step that leaves every call's identity, origin and turn.
LEMMA SameIds ==
    ASSUME AllSame
    PROVE  /\ \A t : ModelIds(t)' = ModelIds(t)
           /\ ProgramIds' = ProgramIds /\ CallsGrow /\ (ProgramsApart => ProgramsApart')
           /\ \A k \in DOMAIN calls : OfModel(k)' <=> OfModel(k)
<1>1. \A k \in DOMAIN calls : /\ calls'[k].id = calls[k].id /\ calls'[k].turn = calls[k].turn
                             /\ calls'[k].origin = calls[k].origin
  BY DEF AllSame, SameCall
<1>2. DOMAIN calls' = DOMAIN calls
  BY DEF AllSame
<1>3. \A t : ModelIds(t)' = ModelIds(t)
  BY <1>1, <1>2 DEF ModelIds, ModelCallsOf, OfModel
<1>4. ProgramIds' = ProgramIds
  BY <1>1, <1>2 DEF ProgramIds, OfModel
<1>5. ProgramsApart => ProgramsApart'
  BY <1>1, <1>2 DEF ProgramsApart, OfModel
<1> QED
  BY <1>1, <1>3, <1>4, <1>5 DEF CallsGrow, OfModel

\* A call at work publishes an event about itself.
LEMMA CallPublishes ==
    ASSUME IdInv, IdInv', AnswerInv, FoldsLike, AllSame, turn' = turn,
           NEW k \in DOMAIN calls, calls[k].phase \in {"starting", "running", "completing"},
           \A j \in DOMAIN calls : j # k => calls'[j] = calls[j],
           NEW kind \in {"call_started", "output", "call_finished"}, NEW value,
           Publishes(<<CallEvent(kind, k, value)>>, OfModel(k)),
           turn.no # 0 => (OnePublished(CallEvent(kind, k, value), OfModel(k))
                              => KnownOf(calls'[k], turn.no, readers')),
           turn.no = 0 => KnownOf(calls'[k], turn.no, readers'),
           Typed(calls'[k], k), OfModel(k) => ModelStands(calls'[k], turn.no, turn.phase)
    PROVE  AnswerInv' /\ FoldsLike'
<1> DEFINE e == CallEvent(kind, k, value)
           id == calls[k].id
<1>1. IsEvent(e) /\ e.seq = 0 /\ e.kind = kind /\ e.call = id /\ e.value = value
  BY DEF CallEvent, Event, IsEvent
<1>2. OfModel(k) => calls[k].turn = turn.no /\ turn.phase = "batch"
  BY AtWork
<1>3. kind \in CallKinds /\ kind \notin {"run_started", "run_finished", "run_failed"}
  BY DEF CallKinds
<1>4. PublishesAs(turn.no, <<e>>, OfModel(k))
  BY DEF Publishes
<1> HIDE DEF e
<1> DEFINE M == ModelIds(turn.no)
<1>5. IF OfModel(k) THEN ForBoth(e, M) ELSE ForReaders(e, ProgramIds')
  <2>1. CASE OfModel(k)
    <3>1. id \in M
      BY <1>2, <2>1 DEF ModelIds, ModelCallsOf
    <3> QED
      BY <1>1, <2>1, <3>1 DEF ForBoth
  <2>2. CASE ~OfModel(k)
    <3>1. id \in ProgramIds
      BY <2>2 DEF ProgramIds
    <3>2. ProgramIds' = ProgramIds
      BY SameIds
    <3> QED
      BY <1>1, <1>3, <2>2, <3>1, <3>2 DEF ForReaders
  <2> QED
    BY <2>1, <2>2
<1>6. (\A t : t = turn.no => M = ModelIds(t)') /\ CallsGrow
  BY SameIds
<1> HIDE DEF M
<1>7. /\ FoldsLike'
      /\ \A t \in 1 .. turn.no : t # turn.no => readers'[t] = readers[t]
      /\ turn.no # 0 => OnePublished(e, OfModel(k))
  BY <1>1, <1>4, <1>5, <1>6, PublishOne
<1>8. ASSUME NEW j \in DOMAIN calls
      PROVE  Standing(calls'[j], j, turn.no, turn.phase, readers')
  <2>1. CASE j = k
    <3>1. KnownOf(calls'[k], turn.no, readers')
      BY <1>7 DEF e
    <3>2. calls'[k].origin = calls[k].origin
      BY DEF AllSame, SameCall
    <3> QED
      BY <2>1, <3>1, <3>2 DEF Standing, OfModel
  <2>2. CASE j # k
    <3>1. calls[j].id # id \/ calls[j].turn # turn.no
      BY <1>2, <2>2, IdsDiffer
    <3>2. Kept(calls[j], readers, readers')
      BY <1>1, <1>7, <3>1, OneKeeps
    <3>3. Standing(calls[j], j, turn.no, turn.phase, readers)
      BY DEF AnswerInv
    <3> QED
      BY <2>2, <3>2, <3>3, StillStands
  <2> QED
    BY <2>1, <2>2
<1>9. turn.no # 0 => states'[turn.no].status = states[turn.no].status
  BY <1>1, <1>3, <1>7 DEF OnePublished
<1>10. ProgramsApart'
  BY SameIds DEF AnswerInv
<1>11. /\ turn.phase \in {"over", "streaming", "batch"}
       /\ turn.phase # "over" => turn.no # 0 /\ states'[turn.no].status = "running"
  BY <1>9 DEF AnswerInv
<1>12. ASSUME turn.no # 0, states'[turn.no].status = "done"
       PROVE  turn.phase = "over" /\ \A j \in Current' : calls'[j].phase = "over"
  <2>1. turn.phase = "over" /\ \A j \in Current : calls[j].phase = "over"
    BY <1>9, <1>12 DEF AnswerInv
  <2>2. ~OfModel(k)
    BY <1>2, <2>1
  <2>3. \A j \in Current' : j \in Current /\ j # k
    BY <2>2, SameIds DEF Current, AllSame, SameCall
  <2> QED
    BY <2>1, <2>3 DEF Current
<1> QED
  BY <1>7, <1>8, <1>10, <1>11, <1>12 DEF AnswerInv, AllSame

\* A call as the invariant has it.
LEMMA StandsNow ==
    ASSUME AnswerInv, NEW k \in DOMAIN calls
    PROVE  /\ Standing(calls[k], k, turn.no, turn.phase, readers)
           /\ Typed(calls[k], k) /\ KnownOf(calls[k], turn.no, readers)
           /\ OfModel(k) => ModelStands(calls[k], turn.no, turn.phase)
BY DEF AnswerInv, Standing, OfModel

\* The on_tool_start hooks returned: the call is announced, or refused.
LEMMA AnnounceAnswers ==
    ASSUME IdInv, IdInv', AnswerInv, FoldsLike, NEW k \in DOMAIN calls, Announce(k)
    PROVE  AnswerInv' /\ FoldsLike'
<1> DEFINE c == calls[k]
<1>0. \A j \in DOMAIN calls : IsCall(calls[j])
  BY DEF IdInv, CallsOk
<1>1. /\ c.phase = "starting" /\ turn' = turn
      /\ Publishes(<<CallEvent("call_started", k, 0)>>, OfModel(k))
  BY DEF Announce, At
<1>2. \E phase, status :
          /\ calls' = [calls EXCEPT ![k] = MovedTo(c, phase, status, c.ended)]
          /\ \/ phase = "completing" /\ status = "refused"
             \/ phase = "running" /\ status = c.status
  <2>1. CASE calls' = [calls EXCEPT ![k].phase = "completing", ![k].status = "refused"]
    <3>1. calls' = [calls EXCEPT ![k] = [[c EXCEPT !.phase = "completing"] EXCEPT !.status = "refused"]]
      BY <2>1
    <3>2. [[c EXCEPT !.phase = "completing"] EXCEPT !.status = "refused"]
            = MovedTo(c, "completing", "refused", c.ended)
      BY <1>0, Moves
    <3> QED
      BY <3>1, <3>2
  <2>2. CASE calls' = [calls EXCEPT ![k].phase = "running"]
    <3>1. calls' = [calls EXCEPT ![k] = [c EXCEPT !.phase = "running"]]
      BY <2>2
    <3>2. [c EXCEPT !.phase = "running"] = MovedTo(c, "running", c.status, c.ended)
      BY <1>0, Moves
    <3> QED
      BY <3>1, <3>2
  <2> QED
    BY <2>1, <2>2 DEF Announce
<1>3. PICK phase, status :
          /\ calls' = [calls EXCEPT ![k] = MovedTo(c, phase, status, c.ended)]
          /\ \/ phase = "completing" /\ status = "refused"
             \/ phase = "running" /\ status = c.status
  BY <1>2
<1>4. /\ DOMAIN calls' = DOMAIN calls /\ calls'[k] = MovedTo(c, phase, status, c.ended)
      /\ \A j \in DOMAIN calls : j # k => calls'[j] = calls[j]
  BY <1>3
<1>5. AllSame
  <2>1. SameCall(c, calls'[k])
    BY <1>4 DEF MovedTo, SameCall, IsCall
  <2> QED
    BY <1>0, <1>4, <2>1, CallFields DEF AllSame
<1>6. Typed(calls'[k], k)
  BY <1>3, <1>4, StandsNow DEF Typed, MovedTo, Phases, Statuses, Verdicts
<1>7. OfModel(k) => ModelStands(calls'[k], turn.no, turn.phase)
  BY <1>1, <1>3, <1>4, StandsNow, AtWork DEF ModelStands, MovedTo
<1>8. ASSUME turn.no # 0, OnePublished(CallEvent("call_started", k, 0), OfModel(k))
      PROVE  KnownOf(calls'[k], turn.no, readers')
  <2>1. c.id \in DOMAIN readers'[turn.no].calls
    BY <1>8 DEF OnePublished, CallEvent, Event
  <2> QED
    BY <1>3, <1>4, <2>1 DEF KnownOf, MovedTo, Heard
<1>9. turn.no = 0 => KnownOf(calls'[k], turn.no, readers')
  BY <1>3, <1>4 DEF KnownOf, MovedTo
<1> QED
  BY <1>1, <1>4, <1>5, <1>6, <1>7, <1>8, <1>9, CallPublishes

\* A running tool emits output.
LEMMA OutputsAnswers ==
    ASSUME IdInv, IdInv', AnswerInv, FoldsLike, NEW k \in DOMAIN calls, Outputs(k)
    PROVE  AnswerInv' /\ FoldsLike'
<1>1. /\ calls[k].phase = "running" /\ turn' = turn /\ calls' = calls
      /\ Publishes(<<CallEvent("output", k, 0)>>, OfModel(k))
  BY DEF Outputs, At
<1>2. AllSame
  BY <1>1, CallFields DEF AllSame, IdInv, CallsOk
<1>3. Typed(calls[k], k) /\ KnownOf(calls[k], turn.no, readers)
      /\ (OfModel(k) => ModelStands(calls[k], turn.no, turn.phase))
  BY StandsNow
<1>4. ASSUME turn.no # 0, OnePublished(CallEvent("output", k, 0), OfModel(k))
      PROVE  KnownOf(calls[k], turn.no, readers')
  BY <1>1, <1>3, <1>4 DEF KnownOf, Heard, OnePublished
<1>5. turn.no = 0 => KnownOf(calls[k], turn.no, readers')
  BY <1>1 DEF KnownOf
<1> QED
  BY <1>1, <1>2, <1>3, <1>4, <1>5, CallPublishes

\* on_tool_complete returned: the verdict is published.
LEMMA CompletesAnswers ==
    ASSUME IdInv, IdInv', AnswerInv, FoldsLike, NEW k \in DOMAIN calls, Completes(k)
    PROVE  AnswerInv' /\ FoldsLike'
<1> DEFINE c == calls[k]
           after == MovedTo(c, "over", c.status, turn.no)
<1>0. \A j \in DOMAIN calls : IsCall(calls[j])
  BY DEF IdInv, CallsOk
<1>1. /\ c.phase = "completing" /\ turn' = turn
      /\ Publishes(<<CallEvent("call_finished", k, c.status)>>, OfModel(k))
  BY DEF Completes, At
<1>2. calls' = [calls EXCEPT ![k] = after]
  <2>1. calls' = [calls EXCEPT ![k] = [[c EXCEPT !.phase = "over"] EXCEPT !.ended = turn.no]]
    BY DEF Completes
  <2>2. [c EXCEPT !.phase = "over"] = MovedTo(c, "over", c.status, c.ended)
    BY <1>0, Moves
  <2>3. [MovedTo(c, "over", c.status, c.ended) EXCEPT !.ended = turn.no] = after
    BY DEF MovedTo
  <2> QED
    BY <2>1, <2>2, <2>3
<1>4. /\ DOMAIN calls' = DOMAIN calls /\ calls'[k] = after
      /\ \A j \in DOMAIN calls : j # k => calls'[j] = calls[j]
  BY <1>2
<1>5. AllSame
  <2>1. SameCall(c, calls'[k])
    BY <1>4 DEF MovedTo, SameCall, IsCall
  <2> QED
    BY <1>0, <1>4, <2>1, CallFields DEF AllSame
<1>6. Typed(calls'[k], k)
  BY <1>1, <1>4, StandsNow DEF Typed, MovedTo, Phases
<1>7. OfModel(k) => ModelStands(calls'[k], turn.no, turn.phase)
  BY <1>1, <1>4, StandsNow, AtWork DEF ModelStands, MovedTo
<1>8. ASSUME turn.no # 0, OnePublished(CallEvent("call_finished", k, c.status), OfModel(k))
      PROVE  KnownOf(calls'[k], turn.no, readers')
  <2>1. c.turn = turn.no => Heard(c, readers)
    BY <1>1, <1>8, StandsNow DEF KnownOf
  <2>2. c.turn = turn.no => /\ c.id \in DOMAIN readers'[turn.no].calls
                            /\ readers'[turn.no].calls[c.id].status = c.status
    BY <1>8, <2>1 DEF OnePublished, CallEvent, Event, Heard
  <2> QED
    BY <1>4, <2>2 DEF KnownOf, MovedTo, Heard
<1>9. turn.no = 0 => KnownOf(calls'[k], turn.no, readers')
  <2>1. ~AloneId(c.id) => c.turn # 0
    BY StandsNow DEF Typed
  <2> QED
    BY <1>4, <2>1 DEF KnownOf, MovedTo
<1> HIDE DEF after
<1> QED
  BY <1>1, <1>4, <1>5, <1>6, <1>7, <1>8, <1>9, CallPublishes

\* A call that is cut off.
LEMMA HaltedIs ==
    ASSUME IdInv, NEW ks, NEW k \in DOMAIN calls
    PROVE  Halted(ks)[k] = IF k \in ks /\ calls[k].phase # "over"
                           THEN MovedTo(calls[k], "halted", calls[k].status, calls[k].ended)
                           ELSE calls[k]
<1>1. [calls[k] EXCEPT !.phase = "halted"]
        = MovedTo(calls[k], "halted", calls[k].status, calls[k].ended)
  BY Moves DEF IdInv, CallsOk
<1> QED
  BY <1>1 DEF Halted

\* A program's call that a cancellation reaches.
LEMMA HaltedStands ==
    ASSUME NEW c, NEW k, NEW no, NEW phase, NEW rs, Standing(c, k, no, phase, rs),
           c.origin # "model"
    PROVE  Standing(MovedTo(c, "halted", c.status, c.ended), k, no, phase, rs)
BY DEF Standing, Typed, KnownOf, MovedTo, Phases

\* What a call made is a program's.
LEMMA MadeByPrograms ==
    ASSUME IdInv, AnswerInv, NEW k \in DOMAIN calls, NEW j \in Made(k)
    PROVE  j \in DOMAIN calls /\ j # k /\ ~OfModel(j) /\ calls[j].origin # "model"
<1>1. j \in DOMAIN calls /\ calls[j].parent = k
  BY DEF Made
<1>2. Typed(calls[j], j) /\ (OfModel(j) => ModelStands(calls[j], turn.no, turn.phase))
  BY <1>1, StandsNow
<1>3. DOMAIN calls = 1 .. Len(calls) /\ Len(calls) \in Nat
  <2>1. IsList(calls, Len(calls))
    BY DEF IdInv, CallsOk
  <2> QED
    BY <2>1, ListAppend DEF IsList
<1>4. k \in Nat /\ k # 0 /\ j \in Nat
  BY <1>1, <1>3
<1> QED
  BY <1>1, <1>2, <1>4 DEF Typed, ModelStands, OfModel

\* A tool returns, or runs out of time with the calls it awaits.
LEMMA ToolEndsAnswers ==
    ASSUME IdInv, IdInv', AnswerInv, FoldsLike, NEW k \in DOMAIN calls, ToolEnds(k)
    PROVE  AnswerInv' /\ FoldsLike'
<1> DEFINE c == calls[k]
<1>0. \A j \in DOMAIN calls : IsCall(calls[j])
  BY DEF IdInv, CallsOk
<1>1. c.phase = "running" /\ turn' = turn /\ UNCHANGED channel
  BY DEF ToolEnds, At
<1>2. PICK awaited \in SUBSET Made(k) :
          calls' = [Halted(awaited) EXCEPT
                       ![k].status = IF awaited = {} THEN "ok" ELSE "timeout",
                       ![k].phase = "completing"]
  BY DEF ToolEnds
<1> DEFINE halted == Halted(awaited)
           status == IF awaited = {} THEN "ok" ELSE "timeout"
           after == MovedTo(c, "completing", status, c.ended)
<1>3. /\ DOMAIN halted = DOMAIN calls /\ halted = [j \in DOMAIN calls |-> halted[j]]
      /\ \A j \in DOMAIN calls : SameCall(calls[j], halted[j])
  BY HaltedSame
<1>4. halted[k] = c
  <2>1. k \notin awaited
    BY MadeByPrograms
  <2> QED
    BY <2>1, HaltedIs
<1>5. [[c EXCEPT !.status = status] EXCEPT !.phase = "completing"] = after
  <2> HIDE DEF status
  <2>1. [c EXCEPT !.status = status] = MovedTo(c, c.phase, status, c.ended)
    BY <1>0 DEF IsCall, MovedTo
  <2>2. [MovedTo(c, c.phase, status, c.ended) EXCEPT !.phase = "completing"] = after
    BY DEF MovedTo
  <2> QED
    BY <2>1, <2>2
<1>6. status \in {"ok", "timeout"}
  OBVIOUS
<1>7. calls' = [halted EXCEPT ![k] = [[c EXCEPT !.status = status] EXCEPT !.phase = "completing"]]
  <2>1. calls' = [halted EXCEPT ![k].status = status, ![k].phase = "completing"]
    BY <1>2
  <2> HIDE DEF halted, status
  <2> QED
    BY <1>3, <1>4, <2>1
<1> HIDE DEF halted, status, after
<1>8. DOMAIN calls' = DOMAIN calls /\ calls'[k] = after
      /\ \A j \in DOMAIN calls : j # k => calls'[j] = halted[j]
  BY <1>3, <1>5, <1>7
<1>9. AllSame
  <2>1. SameCall(c, after)
    BY <1>0 DEF MovedTo, SameCall, IsCall, after
  <2> QED
    BY <1>3, <1>8, <2>1 DEF AllSame
<1>10. ASSUME NEW j \in DOMAIN calls
       PROVE  Standing(calls'[j], j, turn.no, turn.phase, readers)
  <2>1. CASE j = k
    <3>1. Typed(after, k) /\ KnownOf(after, turn.no, readers)
      BY <1>1, <1>6, StandsNow DEF Typed, KnownOf, MovedTo, Phases, Statuses, Verdicts, after,
         Heard
    <3>2. c.origin = "model" => ModelStands(after, turn.no, turn.phase)
      BY <1>1, StandsNow, AtWork DEF ModelStands, MovedTo, after, OfModel
    <3>3. after.origin = c.origin
      BY DEF after, MovedTo
    <3> QED
      BY <1>8, <2>1, <3>1, <3>2, <3>3 DEF Standing
  <2>2. CASE j # k
    <3>1. Standing(calls[j], j, turn.no, turn.phase, readers)
      BY StandsNow
    <3>2. CASE j \in awaited
      <4>1. calls[j].origin # "model"
        BY <3>2, MadeByPrograms
      <4>2. Standing(MovedTo(calls[j], "halted", calls[j].status, calls[j].ended), j, turn.no,
                     turn.phase, readers)
        BY <3>1, <4>1, HaltedStands
      <4> QED
        BY <1>8, <2>2, <3>1, <4>2, HaltedIs DEF halted
    <3>3. CASE j \notin awaited
      BY <1>8, <2>2, <3>1, <3>3, HaltedIs DEF halted
    <3> QED
      BY <3>2, <3>3
  <2> QED
    BY <2>1, <2>2
<1>11. ProgramsApart'
  BY <1>9, SameIds DEF AnswerInv
<1>12. readers' = readers /\ states' = states
  BY <1>1 DEF channel
<1>13. ASSUME turn.no # 0, states[turn.no].status = "done"
       PROVE  turn.phase = "over" /\ \A j \in Current' : calls'[j].phase = "over"
  <2>1. turn.phase = "over" /\ \A j \in Current : calls[j].phase = "over"
    BY <1>13 DEF AnswerInv
  <2>2. ~OfModel(k)
    BY <1>1, <2>1, AtWork
  <2>3. \A j \in Current' : j \in Current /\ j # k
    BY <1>1, <1>9, <2>2, SameIds DEF Current, AllSame, SameCall
  <2>4. \A j \in Current : halted[j] = calls[j]
    BY <2>1, HaltedIs DEF halted, Current
  <2> QED
    BY <1>8, <2>1, <2>3, <2>4 DEF Current
<1>14. AnswerInv'
  BY <1>1, <1>8, <1>10, <1>11, <1>12, <1>13 DEF AnswerInv
<1>15. FoldsLike'
  BY <1>1, <1>9, SameIds, LikeQuiet DEF CallsGrow
<1> QED
  BY <1>14, <1>15

-----------------------------------------------------------------------------
(* The steps that make a call                                              *)

\* A call more.
LEMMA MoreIds ==
    ASSUME IdInv, NEW new, calls' = Append(calls, new)
    PROVE  /\ CallsGrow
           /\ DOMAIN calls' = DOMAIN calls \union {Len(calls) + 1}
           /\ Len(calls) + 1 \notin DOMAIN calls /\ Len(calls) \in Nat
           /\ calls'[Len(calls) + 1] = new
           /\ \A k \in DOMAIN calls : calls'[k] = calls[k]
           /\ \A t : t = new.turn /\ new.origin = "model" => new.id \in ModelIds(t)'
           /\ new.origin # "model" => new.id \in ProgramIds'
<1> DEFINE n == Len(calls)
<1>1. IsList(calls, n) /\ n \in Nat
  BY DEF IdInv, CallsOk, IsList
<1>2. /\ DOMAIN calls = 1 .. n /\ calls'[n + 1] = new
      /\ DOMAIN calls' = 1 .. n + 1 /\ \A k \in 1 .. n : calls'[k] = calls[k]
  BY <1>1, ListAppend
<1> HIDE DEF n
<1>3. 1 .. n + 1 = (1 .. n) \union {n + 1} /\ n + 1 \notin 1 .. n
  BY <1>1
<1>4. CallsGrow
  BY <1>2, <1>3 DEF CallsGrow, ModelIds, ProgramIds, ModelCallsOf, OfModel
<1>5. n + 1 \in DOMAIN calls' /\ calls'[n + 1] = new
  BY <1>2, <1>3
<1>6. \A t : t = new.turn /\ new.origin = "model" => new.id \in ModelIds(t)'
  BY <1>5 DEF ModelIds, ModelCallsOf, OfModel
<1>7. new.origin # "model" => new.id \in ProgramIds'
  BY <1>5 DEF ProgramIds, OfModel
<1> QED
  BY <1>1, <1>2, <1>3, <1>4, <1>6, <1>7 DEF n

\* A new call, if it stands.
LEMMA NewStands ==
    ASSUME IdInv, AnswerInv, NEW new, calls' = Append(calls, new), turn' = turn,
           new.turn = turn.no,
           Standing(new, Len(calls) + 1, turn.no, turn.phase, readers'),
           \A k \in DOMAIN calls : Kept(calls[k], readers, readers'),
           new.origin # "model" => \A k \in DOMAIN calls : calls[k].id # new.id,
           turn.no # 0 => states'[turn.no].status = states[turn.no].status,
           new.origin # "model" \/ turn.phase = "streaming"
    PROVE  AnswerInv'
<1> DEFINE n == Len(calls) + 1
<1>1. /\ DOMAIN calls' = DOMAIN calls \union {n} /\ n \notin DOMAIN calls
      /\ calls'[n] = new /\ \A k \in DOMAIN calls : calls'[k] = calls[k]
  BY MoreIds
<1> HIDE DEF n
<1>2. ASSUME NEW k \in DOMAIN calls'
      PROVE  Standing(calls'[k], k, turn.no, turn.phase, readers')
  <2>1. CASE k = n
    BY <1>1, <2>1 DEF n
  <2>2. CASE k \in DOMAIN calls
    BY <1>1, <2>2, StandsNow, StillStands
  <2> QED
    BY <1>1, <2>1, <2>2
<1>3. ProgramsApart'
  BY <1>1 DEF AnswerInv, ProgramsApart, OfModel
<1>4. ASSUME turn.no # 0, states'[turn.no].status = "done"
      PROVE  turn.phase = "over" /\ \A k \in Current' : calls'[k].phase = "over"
  <2>1. turn.phase = "over" /\ \A k \in Current : calls[k].phase = "over"
    BY <1>4 DEF AnswerInv
  <2>2. new.origin # "model"
    BY <2>1
  <2>3. \A k \in Current' : k \in Current
    BY <1>1, <2>2 DEF Current, OfModel
  <2> QED
    BY <1>1, <2>1, <2>3 DEF Current
<1> QED
  BY <1>2, <1>3, <1>4 DEF AnswerInv

\* The fields of a new call.
LEMMA NewFields ==
    ASSUME NEW id, NEW origin, NEW parent, NEW tool, NEW phase, NEW new,
           new = NewCall(id, origin, parent, tool, phase)
    PROVE  /\ new.id = id /\ new.origin = origin /\ new.parent = parent /\ new.phase = phase
           /\ new.status = "none" /\ new.turn = turn.no
BY DEF NewCall

\* Calls of a program's: nobody's identity is theirs.
LEMMA NestedFresh ==
    ASSUME IdInv, NEW k \in DOMAIN calls
    PROVE  LET id == Append(calls[k].id, NextNested(calls[k].id)) IN
           /\ \A j \in DOMAIN calls : calls[j].id # id
           /\ AloneId(id) <=> AloneId(calls[k].id)
<1> DEFINE p == calls[k].id
           next == NextNested(p)
           id == Append(p, next)
<1>1. p \in Ids /\ Len(p) >= 2
  BY IdsShaped
<1> HIDE DEF p
<1>2. next \in Nat /\ (p \in DOMAIN minted.nested => next \notin 1 .. minted.nested[p])
  BY DEF NextNested, IdInv, MintOk
<1> HIDE DEF next
<1>3. id \in Ids /\ Len(id) = Len(p) + 1 /\ Len(p) \in Nat
      /\ \A q \in Ids, j \in Nat : id = Append(q, j) => p = q /\ next = j
  BY <1>1, <1>2, ExtendedIds
<1>4. id[1] = p[1]
  <2>1. next \in Tags \union Nat /\ p \in Seq(Tags \union Nat) /\ 1 \in 1 .. Len(p)
    BY <1>1, <1>2, <1>3 DEF Ids
  <2> QED
    BY <2>1, AppendProperties
<1>5. \A tag \in Tags, m \in Nat : id # Tagged(tag, m)
  <2>1. Len(id) # 2
    BY <1>1, <1>3
  <2> QED
    BY <2>1, TaggedIds
<1>6. "provider" \in Tags /\ "call" \in Tags /\ "pcall" \in Tags
  BY DEF Tags
<1> HIDE DEF id
<1>7. ASSUME NEW j \in DOMAIN calls PROVE calls[j].id # id
  <2>1. IdKnown(calls, endpoint.ids, minted, j)
    BY DEF IdInv, IdsKnown
  <2>2. \A m \in 1 .. minted.seq : m \in Nat
    OBVIOUS
  <2>3. ASSUME NEW q \in DOMAIN minted.nested, NEW m \in 1 .. minted.nested[q]
        PROVE  id # Append(q, m)
    <3>1. q \in Ids /\ m \in Nat
      BY DEF IdInv, MintOk
    <3> QED
      BY <1>2, <1>3, <3>1
  <2> QED
    BY <1>5, <1>6, <2>1, <2>2, <2>3 DEF IdKnown, ModelIdOf, ProgramId
<1> QED
  BY <1>4, <1>7 DEF AloneId, p, next, id

\* A program calls a tool: nothing is published of it yet.
LEMMA ProgramCallAnswers ==
    ASSUME IdInv, IdInv', AnswerInv, FoldsLike, NEW parent \in Nat, parent < Len(calls) + 1,
           NEW id, NEW tool, ProgramCalls(parent, id, tool),
           \A k \in DOMAIN calls : calls[k].id # id, ~AloneId(id) => turn.no # 0
    PROVE  AnswerInv' /\ FoldsLike'
<1> DEFINE new == NewCall(id, "program", parent, tool, "starting")
<1>1. calls' = Append(calls, new) /\ turn' = turn /\ UNCHANGED channel
  BY DEF ProgramCalls
<1>2. /\ new.id = id /\ new.origin = "program" /\ new.parent = parent /\ new.phase = "starting"
      /\ new.status = "none" /\ new.turn = turn.no
  BY NewFields
<1> HIDE DEF new
<1>3. readers' = readers /\ states' = states
  BY <1>1 DEF channel
<1>4. Standing(new, Len(calls) + 1, turn.no, turn.phase, readers')
  BY <1>2 DEF Standing, Typed, KnownOf, Phases, Statuses
<1>5. \A k \in DOMAIN calls : Kept(calls[k], readers, readers')
  BY <1>3 DEF Kept
<1>6. AnswerInv'
  BY <1>1, <1>2, <1>3, <1>4, <1>5, NewStands
<1>7. CallsGrow
  BY <1>1, MoreIds
<1>8. FoldsLike'
  BY <1>1, <1>7, LikeQuiet DEF CallsGrow
<1> QED
  BY <1>6, <1>8

\* A running call calls a tool.
LEMMA NestedAnswers ==
    ASSUME IdInv, IdInv', AnswerInv, FoldsLike, NEW k \in DOMAIN calls, NEW tool,
           CallsNested(k, tool)
    PROVE  AnswerInv' /\ FoldsLike'
<1> DEFINE id == Append(calls[k].id, NextNested(calls[k].id))
<1>1. ProgramCalls(k, id, tool)
  BY DEF CallsNested
<1>2. (\A j \in DOMAIN calls : calls[j].id # id) /\ (AloneId(id) <=> AloneId(calls[k].id))
  BY NestedFresh
<1>3. ~AloneId(calls[k].id) => calls[k].turn # 0
  BY StandsNow DEF Typed
<1>4. calls[k].turn \in Nat /\ calls[k].turn <= turn.no /\ turn.no \in Nat
  BY DEF IdInv, TurnOk
<1>5. k \in Nat /\ k < Len(calls) + 1
  <2>1. IsList(calls, Len(calls))
    BY DEF IdInv, CallsOk
  <2>2. DOMAIN calls = 1 .. Len(calls) /\ Len(calls) \in Nat
    BY <2>1, ListAppend DEF IsList
  <2> QED
    BY <2>2
<1> HIDE DEF id
<1>6. ~AloneId(id) => turn.no # 0
  BY <1>2, <1>3, <1>4
<1> QED
  BY <1>1, <1>2, <1>5, <1>6, ProgramCallAnswers

\* A plugin calls a tool on its own.
LEMMA AloneAnswers ==
    ASSUME IdInv, IdInv', AnswerInv, FoldsLike, NEW tool, CallsAlone(tool)
    PROVE  AnswerInv' /\ FoldsLike'
<1> DEFINE id == Tagged("pcall", minted.seq + 1)
<1>1. ProgramCalls(0, id, tool)
  BY DEF CallsAlone, Tagged
<1>2. AloneId(id)
  BY DEF AloneId, Tagged
<1>3. \A k \in DOMAIN calls : calls[k].id # id
  BY NumbersFresh
<1>4. 0 \in Nat /\ 0 < Len(calls) + 1
  <2>1. Len(calls) \in Nat
    BY DEF IdInv, CallsOk, IsList
  <2> QED
    BY <2>1
<1> HIDE DEF id
<1> QED
  BY <1>1, <1>2, <1>3, <1>4, ProgramCallAnswers

\* A call of the model's forms while its response streams.
LEMMA FormsAnswers ==
    ASSUME IdInv, IdInv', AnswerInv, FoldsLike, CallForms
    PROVE  AnswerInv' /\ FoldsLike'
<1>1. PICK tool : calls' = Append(calls, NewCall(ModelId, "model", 0, tool, "forming"))
  BY DEF CallForms
<1> DEFINE new == NewCall(ModelId, "model", 0, tool, "forming")
           e == Event("args", ModelId, [named |-> endpoint.names])
<1>2. /\ turn.phase = "streaming" /\ turn' = turn
      /\ PublishesAs(turn.no, <<e>>, TRUE)
  BY DEF CallForms, Publishes
<1>3. /\ new.id = ModelId /\ new.origin = "model" /\ new.parent = 0 /\ new.phase = "forming"
      /\ new.status = "none" /\ new.turn = turn.no
  BY NewFields
<1>4. calls' = Append(calls, new)
  BY <1>1
<1>5. IsEvent(e) /\ e.seq = 0 /\ e.kind = "args" /\ e.call = ModelId
  BY DEF Event, IsEvent
<1> HIDE DEF new, e
<1> DEFINE M == ModelIds(turn.no) \union {ModelId}
<1>6. CallsGrow /\ \A t : t = turn.no => M = ModelIds(t)'
  <2>1. CallsGrow
    BY <1>4, MoreIds
  <2> SUFFICES ASSUME NEW t, t = turn.no PROVE M = ModelIds(t)'
    BY <2>1
  <2>2. ModelIds(t)' = ModelIds(t) \union {new.id}
    <3>1. /\ DOMAIN calls' = DOMAIN calls \union {Len(calls) + 1}
          /\ Len(calls) + 1 \notin DOMAIN calls /\ calls'[Len(calls) + 1] = new
          /\ \A k \in DOMAIN calls : calls'[k] = calls[k]
      BY <1>4, MoreIds
    <3> QED
      BY <1>3, <3>1 DEF ModelIds, ModelCallsOf, OfModel
  <2> QED
    BY <1>3, <2>2
<1>7. ForBoth(e, M)
  BY <1>5 DEF ForBoth
<1> HIDE DEF M
<1>8. /\ FoldsLike'
      /\ \A t \in 1 .. turn.no : t # turn.no => readers'[t] = readers[t]
      /\ turn.no # 0 => OnePublished(e, TRUE)
  BY <1>2, <1>5, <1>6, <1>7, PublishOne
<1>9. ~AloneId(ModelId)
  BY DEF AloneId, ModelId
<1>10. turn.no # 0
  BY <1>2 DEF AnswerInv
<1>11. Standing(new, Len(calls) + 1, turn.no, turn.phase, readers')
  <2>1. Len(calls) \in Nat
    BY DEF IdInv, CallsOk, IsList
  <2>2. 0 < Len(calls) + 1
    BY <2>1
  <2> QED
    BY <1>2, <1>3, <1>9, <1>10, <2>2
       DEF Standing, Typed, KnownOf, ModelStands, Phases, Statuses
<1>12. \A k \in DOMAIN calls : Kept(calls[k], readers, readers')
  <2> SUFFICES ASSUME NEW k \in DOMAIN calls PROVE Kept(calls[k], readers, readers')
    OBVIOUS
  <2>1. calls[k].id # e.call \/ calls[k].turn # turn.no
    BY <1>5, ModelFresh
  <2> QED
    BY <1>8, <2>1, OneKeeps
<1>13. states'[turn.no].status = states[turn.no].status
  BY <1>5, <1>8, <1>10 DEF OnePublished
<1>14. AnswerInv'
  BY <1>2, <1>3, <1>4, <1>11, <1>12, <1>13, NewStands
<1> QED
  BY <1>8, <1>14

-----------------------------------------------------------------------------
(* The steps of the turn                                                   *)

\* Text of the model's, and a notice of a plugin's.
LEMMA SpeaksAnswers ==
    ASSUME IdInv, IdInv', AnswerInv, FoldsLike, Says \/ Notices
    PROVE  AnswerInv' /\ FoldsLike'
<1>1. PICK kind \in {"text", "notice"}, folds \in BOOLEAN :
          /\ PublishesAs(turn.no, <<Event(kind, NoCall, 0)>>, folds)
          /\ kind = "notice" \/ folds
          /\ kind = "text" \/ ~folds
  BY DEF Says, Notices, Publishes
<1> DEFINE e == Event(kind, NoCall, 0)
<1>2. turn' = turn /\ calls' = calls
  BY DEF Says, Notices
<1>3. IsEvent(e) /\ e.seq = 0 /\ e.kind = kind
  BY DEF Event, IsEvent
<1>4. kind \notin CallKinds /\ kind \notin {"run_started", "run_finished", "run_failed"}
  BY DEF CallKinds
<1>5. PublishesAs(turn.no, <<e>>, folds)
  BY <1>1
<1> HIDE DEF e
<1>6. AllSame
  BY <1>2, CallFields DEF AllSame, IdInv, CallsOk
<1> DEFINE M == ModelIds(turn.no)
<1>7. CallsGrow /\ \A t : t = turn.no => M = ModelIds(t)'
  BY <1>6, SameIds
<1> HIDE DEF M
<1>8. IF folds THEN ForBoth(e, M) ELSE ForReaders(e, ProgramIds')
  BY <1>1, <1>3, <1>4 DEF ForBoth, ForReaders
<1>9. /\ FoldsLike'
      /\ \A t \in 1 .. turn.no : t # turn.no => readers'[t] = readers[t]
      /\ turn.no # 0 => OnePublished(e, folds)
  BY <1>2, <1>3, <1>5, <1>7, <1>8, PublishOne
<1>10. ASSUME NEW k \in DOMAIN calls
       PROVE  Standing(calls[k], k, turn.no, turn.phase, readers')
  <2>1. Kept(calls[k], readers, readers')
    BY <1>3, <1>4, <1>9, OneKeeps
  <2> QED
    BY <2>1, StandsNow, StillStands
<1>11. turn.no # 0 => states'[turn.no].status = states[turn.no].status
  BY <1>3, <1>4, <1>9 DEF OnePublished
<1>12. AnswerInv'
  BY <1>2, <1>10, <1>11 DEF AnswerInv, ProgramsApart, OfModel, Current
<1> QED
  BY <1>9, <1>12

\* What leaves the turn, the calls and the channel alone.
LEMMA IdleAnswers ==
    ASSUME IdInv, IdInv', AnswerInv, FoldsLike, UNCHANGED <<turn, calls, channel>>
    PROVE  AnswerInv' /\ FoldsLike'
<1>1. AllSame
  BY CallFields DEF AllSame, IdInv, CallsOk
<1>2. FoldsLike'
  BY <1>1, SameIds, LikeQuiet DEF CallsGrow
<1>3. AnswerInv'
  BY DEF AnswerInv, ProgramsApart, OfModel, Current, channel
<1> QED
  BY <1>2, <1>3

\* The turn publishes an event that is about no call.
LEMMA TurnPublishes ==
    ASSUME IdInv, IdInv', FoldsLike, AllSame, NEW e, IsEvent(e), e.seq = 0,
           e.kind \in {"iteration_finished", "run_finished", "run_failed"},
           PublishesAs(turn.no, <<e>>, TRUE), turn'.no = turn.no
    PROVE  /\ FoldsLike' /\ (turn.no # 0 => OnePublished(e, TRUE))
           /\ \A k \in DOMAIN calls : Kept(calls[k], readers, readers')
<1> DEFINE M == ModelIds(turn.no)
<1>1. CallsGrow /\ \A t : t = turn.no => M = ModelIds(t)'
  BY SameIds
<1> HIDE DEF M
<1>2. e.kind \notin CallKinds
  BY DEF CallKinds
<1>3. IF TRUE THEN ForBoth(e, M) ELSE ForReaders(e, ProgramIds')
  BY <1>2 DEF ForBoth
<1>4. /\ FoldsLike'
      /\ \A t \in 1 .. turn.no : t # turn.no => readers'[t] = readers[t]
      /\ turn.no # 0 => OnePublished(e, TRUE)
  BY <1>1, <1>3, PublishOne
<1> QED
  BY <1>2, <1>4, OneKeeps

\* A turn that goes on to another phase.
LEMMA TurnFields ==
    ASSUME IdInv, NEW phase, turn' = [turn EXCEPT !.phase = phase]
    PROVE  turn'.no = turn.no /\ turn'.phase = phase
BY DEF IdInv, TurnOk, IsTurn

\* A call as the model left it, when its turn takes it further.
LEMMA ResponseEndsAnswers ==
    ASSUME IdInv, IdInv', AnswerInv, FoldsLike, ResponseEnds
    PROVE  AnswerInv' /\ FoldsLike'
<1> DEFINE e == Event("iteration_finished", NoCall, 1)
           Started(k) == MovedTo(calls[k], "starting", calls[k].status, calls[k].ended)
<1>0. \A k \in DOMAIN calls : IsCall(calls[k])
  BY DEF IdInv, CallsOk
<1>1. turn.phase = "streaming" /\ turn'.no = turn.no /\ turn'.phase = "batch"
      /\ PublishesAs(turn.no, <<e>>, TRUE)
  BY TurnFields DEF ResponseEnds, Publishes
<1>2. IsEvent(e) /\ e.seq = 0 /\ e.kind = "iteration_finished"
  BY DEF Event, IsEvent
<1> HIDE DEF e
<1>3. DOMAIN calls' = DOMAIN calls
      /\ \A k \in DOMAIN calls : calls'[k] = IF k \in Current THEN Started(k) ELSE calls[k]
  <2>1. calls' = [k \in DOMAIN calls |->
                     IF k \in Current THEN [calls[k] EXCEPT !.phase = "starting"] ELSE calls[k]]
    BY DEF ResponseEnds
  <2>2. \A k \in DOMAIN calls : [calls[k] EXCEPT !.phase = "starting"] = Started(k)
    BY <1>0, Moves
  <2> HIDE DEF Started
  <2> QED
    BY <2>1, <2>2
<1>4. AllSame
  <2>1. \A k \in DOMAIN calls : SameCall(calls[k], calls[k]) /\ SameCall(calls[k], Started(k))
    BY <1>0 DEF SameCall, MovedTo, IsCall
  <2> HIDE DEF Started
  <2> QED
    BY <1>3, <2>1 DEF AllSame
<1>5. /\ FoldsLike' /\ (turn.no # 0 => OnePublished(e, TRUE))
      /\ \A k \in DOMAIN calls : Kept(calls[k], readers, readers')
  BY <1>1, <1>2, <1>4, TurnPublishes
<1>6. ASSUME NEW k \in DOMAIN calls
      PROVE  Standing(calls'[k], k, turn.no, "batch", readers')
  <2> DEFINE c == calls[k]
  <2>1. Standing(c, k, turn.no, "streaming", readers')
    BY <1>1, <1>5, StandsNow, StillStands
  <2>2. CASE k \in Current
    <3>1. calls'[k] = Started(k) /\ c.turn = turn.no
      BY <1>3, <2>2 DEF Current
    <3> QED
      BY <2>1, <3>1 DEF Standing, Typed, KnownOf, ModelStands, MovedTo, Phases, Statuses
  <2>3. CASE k \notin Current
    <3>1. calls'[k] = c /\ (c.origin = "model" => c.turn # turn.no)
      BY <1>3, <2>3 DEF Current, OfModel
    <3> QED
      BY <2>1, <3>1 DEF Standing, ModelStands
  <2> QED
    BY <2>2, <2>3
<1>7. turn.no # 0 /\ states'[turn.no].status = "running"
  BY <1>1, <1>2, <1>5 DEF AnswerInv, OnePublished
<1>8. ProgramsApart'
  BY <1>4, SameIds DEF AnswerInv
<1>9. AnswerInv'
  BY <1>1, <1>3, <1>6, <1>7, <1>8 DEF AnswerInv
<1> QED
  BY <1>5, <1>9

\* A turn is cancelled, or its provider fails.
LEMMA EndsAnswers ==
    ASSUME IdInv, IdInv', AnswerInv, FoldsLike, CancelTurn \/ Fails
    PROVE  AnswerInv' /\ FoldsLike'
<1>1. PICK e, awaited :
          /\ calls' = Halted(Current \union awaited)
          /\ \A j \in awaited \cap DOMAIN calls : calls[j].origin # "model"
          /\ IsEvent(e) /\ e.seq = 0 /\ PublishesAs(turn.no, <<e>>, TRUE)
          /\ \/ e.kind = "run_finished" /\ e.value.cancelled
             \/ e.kind = "run_failed"
  <2>1. CASE CancelTurn
    <3> DEFINE e == Ending(0, TRUE, states[turn.no].iteration)
    <3>1. PICK awaited \in SUBSET UNION {Made(k) : k \in {j \in Current : calls[j].phase = "running"}} :
              calls' = Halted(Current \union awaited)
      BY <2>1 DEF CancelTurn
    <3>2. \A j \in awaited : calls[j].origin # "model"
      <4> SUFFICES ASSUME NEW j \in awaited PROVE calls[j].origin # "model"
        OBVIOUS
      <4>1. PICK k \in Current : j \in Made(k)
        BY <3>1
      <4>2. k \in DOMAIN calls
        BY DEF Current
      <4> QED
        BY <4>1, <4>2, MadeByPrograms
    <3>3. PublishesAs(turn.no, <<e>>, TRUE)
      BY <2>1 DEF CancelTurn, Publishes
    <3>4. IsEvent(e) /\ e.seq = 0 /\ e.kind = "run_finished" /\ e.value.cancelled
      BY DEF Ending, Event, IsEvent
    <3> HIDE DEF e
    <3> QED
      BY <3>1, <3>2, <3>3, <3>4
  <2>2. CASE Fails
    <3> DEFINE e == Event("run_failed", NoCall, 0)
    <3>1. calls' = Halted(Current \union {}) /\ PublishesAs(turn.no, <<e>>, TRUE)
      BY <2>2 DEF Fails, Publishes
    <3>2. IsEvent(e) /\ e.seq = 0 /\ e.kind = "run_failed"
      BY DEF Event, IsEvent
    <3> DEFINE awaited == {}
    <3>3. \A j \in awaited \cap DOMAIN calls : calls[j].origin # "model"
      OBVIOUS
    <3>4. calls' = Halted(Current \union awaited)
      BY <3>1
    <3> HIDE DEF e, awaited
    <3> QED
      BY <3>1, <3>2, <3>3, <3>4
  <2> QED
    BY <2>1, <2>2
<1>2. turn'.no = turn.no /\ turn'.phase = "over" /\ turn.no # 0
  BY TurnFields DEF CancelTurn, Fails, AnswerInv
<1> DEFINE ks == Current \union awaited
           Cut(k) == MovedTo(calls[k], "halted", calls[k].status, calls[k].ended)
<1>3. DOMAIN calls' = DOMAIN calls
      /\ \A k \in DOMAIN calls :
            calls'[k] = IF k \in ks /\ calls[k].phase # "over" THEN Cut(k) ELSE calls[k]
  BY <1>1, HaltedIs, HaltedSame
<1>4. AllSame
  BY <1>1, HaltedSame DEF AllSame
<1>5. /\ FoldsLike' /\ OnePublished(e, TRUE)
      /\ \A k \in DOMAIN calls : Kept(calls[k], readers, readers')
  BY <1>1, <1>2, <1>4, TurnPublishes
<1>6. ASSUME NEW k \in DOMAIN calls
      PROVE  Standing(calls'[k], k, turn.no, "over", readers')
  <2> DEFINE c == calls[k]
  <2>1. Standing(c, k, turn.no, turn.phase, readers')
    BY <1>5, StandsNow, StillStands
  <2>2. CASE k \in ks /\ c.phase # "over"
    <3>1. calls'[k] = Cut(k)
      BY <1>3, <2>2
    <3> HIDE DEF ks
    <3> QED
      BY <2>1, <3>1 DEF Standing, Typed, KnownOf, ModelStands, MovedTo, Phases, Statuses
  <2>3. CASE ~(k \in ks /\ c.phase # "over")
    <3>1. calls'[k] = c
      BY <1>3, <2>3
    <3>2. c.origin = "model" /\ c.turn = turn.no => c.phase = "over"
      BY <2>3 DEF Current, OfModel
    <3> HIDE DEF ks
    <3> QED
      BY <2>1, <3>1, <3>2 DEF Standing, ModelStands
  <2> QED
    BY <2>2, <2>3
<1>7. states'[turn.no].status # "done"
  BY <1>1, <1>5 DEF OnePublished
<1>8. ProgramsApart'
  BY <1>4, SameIds DEF AnswerInv
<1>9. AnswerInv'
  BY <1>2, <1>3, <1>6, <1>7, <1>8 DEF AnswerInv
<1> QED
  BY <1>5, <1>9

\* Several events about no call, of the run there is or of one that begins.
LEMMA PlainTwo ==
    ASSUME NEW f, IsFold(f), NEW d, NEW e, d.seq \in Nat, e.seq \in Nat,
           d.kind \notin CallKinds, e.kind \notin CallKinds
    PROVE  /\ IsFold(Applied(Applied(f, d), e))
           /\ Applied(Applied(f, d), e).calls = f.calls
<1>1. IsFold(Applied(f, d)) /\ Applied(f, d).calls = f.calls
  BY AppliedIs DEF Effects
<1> DEFINE g == Applied(f, d)
<1> HIDE DEF g
<1>2. IsFold(g) => IsFold(Applied(g, e)) /\ Applied(g, e).calls = g.calls
  BY AppliedIs DEF Effects
<1> QED
  BY <1>1, <1>2 DEF g

\* The live fold takes what has no number yet, if it is of its run.
LEMMA LiveTakes ==
    ASSUME NEW f, IsFold(f), f.seq = 0, NEW d, d.seq = 0, d.run = f.run \/ f.run = 0,
           d.kind \notin CallKinds
    PROVE  LET F == Applied(f, d) IN
           /\ IsFold(F) /\ F.seq = 0 /\ F.calls = f.calls
           /\ F.run = IF d.kind = "run_started" THEN d.run ELSE f.run
           /\ F.status = CASE d.kind = "run_started" -> "running"
                           [] d.kind = "run_finished"
                                 -> (IF d.value.cancelled THEN "cancelled" ELSE "done")
                           [] d.kind = "run_failed" -> "failed"
                           [] OTHER -> f.status
<1>1. Folds(f, d)
  BY DEF Folds
<1>2. Applied(f, d) = Folded(f, d)
  BY <1>1, TakesAsIs
<1> QED
  BY <1>2, PlainFolds

\* What publishing two or three events about no call makes of the folds.
Ended(no) ==
    /\ readers'[no].calls = readers[no].calls
    /\ states'[no].status = "done"

\* What a reply publishes closes the turn's live state, and no call's.
LEMMA RepliesPublish ==
    ASSUME IdInv, IdInv', FoldsLike, AllSame, turn'.no = turn.no, turn.no # 0,
           NEW a, NEW b, IsEvent(a), IsEvent(b), a.seq = 0, b.seq = 0,
           a.kind = "iteration_finished", b.kind = "run_finished", ~b.value.cancelled,
           NEW c, IsEvent(c), c.seq = 0, c.kind = "iteration_started",
           NEW events, events = <<a, b>> \/ events = <<c, a, b>>,
           PublishesAs(turn.no, events, TRUE)
    PROVE  /\ FoldsLike' /\ Ended(turn.no)
           /\ \A t \in 1 .. turn.no : t # turn.no => readers'[t] = readers[t]
<1> DEFINE M == ModelIds(turn.no)
           no == turn.no
<1>1. CallsGrow /\ \A t : t = no => M = ModelIds(t)'
  BY SameIds
<1> HIDE DEF M
<1>2. PICK n \in {2, 3} :
          /\ IsList(events, n)
          /\ \A i \in 1 .. n : /\ IsEvent(events[i]) /\ events[i].seq = 0
                               /\ events[i].kind \in {"iteration_started", "iteration_finished",
                                                      "run_finished"}
          /\ events[n] = b
          /\ n = 2 => events[1] = a
          /\ n = 3 => events[1] = c /\ events[2] = a
  <2>1. CASE events = <<a, b>>
    <3>1. IsList(events, 2) /\ events[1] = a /\ events[2] = b
      BY <2>1 DEF IsList
    <3>2. \A i \in 1 .. 2 : i = 1 \/ i = 2
      OBVIOUS
    <3> QED
      BY <3>1, <3>2
  <2>2. CASE events = <<c, a, b>>
    <3>1. IsList(events, 3) /\ events[1] = c /\ events[2] = a /\ events[3] = b
      BY <2>2 DEF IsList
    <3>2. \A i \in 1 .. 3 : i = 1 \/ i = 2 \/ i = 3
      OBVIOUS
    <3> QED
      BY <3>1, <3>2
  <2> QED
    BY <2>1, <2>2
<1>3. n \in Nat \ {0} /\ no \in Nat /\ Followed
  BY DEF IdInv, TurnOk, FoldsLike
<1>4. Publishable(events, n, no, TRUE) /\ EventsFit(events, n, TRUE, M, ProgramIds')
  BY <1>2, <1>3 DEF Publishable, EventsFit, ForBoth, CallKinds
<1> HIDE DEF no
<1>5. /\ FoldsLike'
      /\ \A t \in 1 .. turn.no : t # no => states'[t] = states[t] /\ readers'[t] = readers[t]
      /\ no # 0 => Folding(events, n, no, TRUE)
  BY <1>1, <1>4, Publish DEF no
<1>6. Folding(events, n, no, TRUE)
  BY <1>5 DEF no
<1>7. PICK of, stamped :
          /\ IsList(of, n) /\ IsList(stamped, n)
          /\ \A i \in 1 .. n : /\ of[i] = [events[i] EXCEPT !.run = no]
                               /\ stamped[i] = [of[i] EXCEPT !.seq = seq + i]
          /\ states'[no] = AllApplied(Of(states, no), of)
          /\ readers'[no] = AllApplied(Of(readers, no), stamped)
  BY <1>6 DEF Folding
<1>8. \A i \in 1 .. n : /\ of[i].kind = events[i].kind /\ of[i].value = events[i].value
                        /\ of[i].run = no /\ of[i].seq = 0
                        /\ stamped[i].kind = events[i].kind /\ stamped[i].seq = seq + i
  <2> SUFFICES ASSUME NEW i \in 1 .. n
               PROVE  /\ of[i].kind = events[i].kind /\ of[i].value = events[i].value
                      /\ of[i].run = no /\ of[i].seq = 0
                      /\ stamped[i].kind = events[i].kind /\ stamped[i].seq = seq + i
    OBVIOUS
  <2>1. of[i] = [kind |-> events[i].kind, call |-> events[i].call, value |-> events[i].value,
                 run |-> no, seq |-> 0]
    BY <1>2, <1>7 DEF IsEvent
  <2>2. stamped[i] = [kind |-> events[i].kind, call |-> events[i].call,
                      value |-> events[i].value, run |-> no, seq |-> seq + i]
    <3>1. stamped[i] = [of[i] EXCEPT !.seq = seq + i]
      BY <1>7
    <3> QED
      BY <2>1, <3>1
  <2> QED
    BY <2>1, <2>2
<1> DEFINE f == readers[no]
           g == states[no]
<1>9. /\ Of(states, no) = g /\ Of(readers, no) = f
      /\ IsFold(f) /\ IsFold(g) /\ g.seq = 0 /\ g.run = no /\ seq \in Nat
  <2>1. no \in 1 .. turn.no
    BY <1>3 DEF no
  <2>2. Like(f, g, ModelIds(no), ProgramIds) /\ f.run = no
    BY <1>3, <2>1 DEF FoldsLike, Followed
  <2> QED
    BY <1>3, <2>1, <2>2 DEF Of, Followed, Like, Same
<1> HIDE DEF f, g
<1>10. ASSUME NEW i \in 1 .. n
       PROVE  /\ stamped[i].seq \in Nat /\ stamped[i].kind \notin CallKinds
              /\ of[i].seq = 0 /\ of[i].run = no /\ of[i].kind \notin CallKinds
  BY <1>2, <1>8, <1>9 DEF CallKinds
<1>11. CASE n = 2
  <2>1. of = <<of[1], of[2]>> /\ stamped = <<stamped[1], stamped[2]>>
    BY <1>7, <1>11 DEF IsList
  <2>2. states'[no] = Applied(Applied(g, of[1]), of[2])
        /\ readers'[no] = Applied(Applied(f, stamped[1]), stamped[2])
    BY <1>7, <1>9, <2>1, FoldsTwo
  <2>3. readers'[no].calls = f.calls
    BY <1>9, <1>10, <1>11, <2>2, PlainTwo
  <2> DEFINE h == Applied(g, of[1])
  <2>4. IsFold(h) /\ h.seq = 0 /\ h.run = no
    BY <1>2, <1>8, <1>9, <1>10, <1>11, LiveTakes
  <2> HIDE DEF h
  <2>5. Applied(h, of[2]).status = "done"
    BY <1>2, <1>8, <1>10, <1>11, <2>4, LiveTakes
  <2> QED
    BY <1>5, <2>2, <2>3, <2>5 DEF Ended, h, f, no
<1>12. CASE n = 3
  <2>1. of = <<of[1], of[2], of[3]>> /\ stamped = <<stamped[1], stamped[2], stamped[3]>>
    BY <1>7, <1>12 DEF IsList
  <2>2. states'[no] = Applied(Applied(Applied(g, of[1]), of[2]), of[3])
        /\ readers'[no] = Applied(Applied(Applied(f, stamped[1]), stamped[2]), stamped[3])
    BY <1>7, <1>9, <2>1, FoldsThree
  <2>3. readers'[no].calls = f.calls
    <3> DEFINE r == Applied(Applied(f, stamped[1]), stamped[2])
    <3>1. IsFold(r) /\ r.calls = f.calls
      BY <1>9, <1>10, <1>12, PlainTwo
    <3> HIDE DEF r
    <3> DEFINE last == stamped[3]
    <3>2. last.seq \in Nat /\ last.kind \notin CallKinds
      BY <1>10, <1>12
    <3> HIDE DEF last
    <3>3. Effects(r, last, Applied(r, last))
      BY <3>1, <3>2, AppliedIs
    <3>4. Applied(r, last).calls = r.calls
      BY <3>2, <3>3 DEF Effects
    <3> QED
      BY <2>2, <3>1, <3>4 DEF r, last
  <2> DEFINE h == Applied(g, of[1])
             i == Applied(h, of[2])
  <2>4. IsFold(h) /\ h.seq = 0 /\ h.run = no
    BY <1>2, <1>8, <1>9, <1>10, <1>12, LiveTakes
  <2> HIDE DEF h
  <2>5. IsFold(i) /\ i.seq = 0 /\ i.run = no
    BY <1>2, <1>8, <1>10, <1>12, <2>4, LiveTakes
  <2> HIDE DEF i
  <2>6. Applied(i, of[3]).status = "done"
    BY <1>2, <1>8, <1>10, <1>12, <2>5, LiveTakes
  <2> QED
    BY <1>5, <2>2, <2>3, <2>6 DEF Ended, h, i, f, no
<1> QED
  BY <1>5, <1>11, <1>12 DEF no

\* The events of a reply, with and without the start of another iteration.
LEMMA OneBeforeTwo ==
    ASSUME NEW a, NEW b, NEW c
    PROVE  <<>> \o <<a, b>> = <<a, b>> /\ <<c>> \o <<a, b>> = <<c, a, b>>
<1>1. /\ <<a, b>> \in Seq({a, b, c}) /\ <<c>> \in Seq({a, b, c}) /\ <<>> \in Seq({a, b, c})
      /\ <<c, a, b>> \in Seq({a, b, c})
  OBVIOUS
<1>2. Len(<<c>> \o <<a, b>>) = 3 /\ Len(<<>> \o <<a, b>>) = 2
  BY <1>1
<1>3. /\ (<<c>> \o <<a, b>>)[1] = c /\ (<<c>> \o <<a, b>>)[2] = a /\ (<<c>> \o <<a, b>>)[3] = b
      /\ (<<>> \o <<a, b>>)[1] = a /\ (<<>> \o <<a, b>>)[2] = b
  BY <1>1
<1>4. <<c>> \o <<a, b>> \in Seq({a, b, c}) /\ <<>> \o <<a, b>> \in Seq({a, b, c})
  BY <1>1
<1> DEFINE S == {a, b, c}
           two == <<>> \o <<a, b>>
           three == <<c>> \o <<a, b>>
<1> HIDE DEF S, two, three
<1>5. two = <<a, b>>
  <2>1. two \in Seq(S) /\ Len(two) = 2 /\ two[1] = a /\ two[2] = b
    BY <1>2, <1>3, <1>4 DEF S, two
  <2>2. DOMAIN two = 1 .. 2 /\ two = [i \in 1 .. 2 |-> two[i]]
    BY <2>1
  <2>3. \A i \in 1 .. 2 : two[i] = <<a, b>>[i]
    BY <2>1
  <2> QED
    BY <2>2, <2>3
<1>6. three = <<c, a, b>>
  <2>1. three \in Seq(S) /\ Len(three) = 3 /\ three[1] = c /\ three[2] = a /\ three[3] = b
    BY <1>2, <1>3, <1>4 DEF S, three
  <2>2. DOMAIN three = 1 .. 3 /\ three = [i \in 1 .. 3 |-> three[i]]
    BY <2>1
  <2>3. \A i \in 1 .. 3 : three[i] = <<c, a, b>>[i]
    BY <2>1
  <2> QED
    BY <2>2, <2>3
<1> QED
  BY <1>5, <1>6 DEF two, three

\* The model answers without a call: every call of the turn has a verdict.
LEMMA RepliesAnswers ==
    ASSUME IdInv, IdInv', AnswerInv, FoldsLike, Replies
    PROVE  AnswerInv' /\ FoldsLike'
<1> DEFINE iteration == IF turn.phase = "batch" THEN 2 ELSE 1
           c == Event("iteration_started", NoCall, 2)
           a == Event("iteration_finished", NoCall, 1)
           b == Ending(1, FALSE, iteration)
           first == IF iteration = 1 THEN <<>> ELSE <<c>>
           events == first \o <<a, b>>
<1>1. /\ turn.no # 0 /\ turn'.no = turn.no /\ turn'.phase = "over" /\ calls' = calls
      /\ PublishesAs(turn.no, events, TRUE)
  <2>1. turn.no # 0
    BY DEF Replies
  <2> QED
    BY <2>1, TurnFields DEF Replies, Publishes
<1>2. events = <<a, b>> \/ events = <<c, a, b>>
  <2> HIDE DEF a, b, c
  <2>1. <<>> \o <<a, b>> = <<a, b>> /\ <<c>> \o <<a, b>> = <<c, a, b>>
    BY OneBeforeTwo
  <2>2. events = <<>> \o <<a, b>> \/ events = <<c>> \o <<a, b>>
    OBVIOUS
  <2> QED
    BY <2>1, <2>2
<1>3. /\ IsEvent(a) /\ IsEvent(b) /\ IsEvent(c) /\ a.seq = 0 /\ b.seq = 0 /\ c.seq = 0
      /\ a.kind = "iteration_finished" /\ b.kind = "run_finished" /\ ~b.value.cancelled
      /\ c.kind = "iteration_started"
  BY DEF Event, IsEvent, Ending
<1> HIDE DEF a, b, c, events
<1>4. AllSame
  BY <1>1, CallFields DEF AllSame, IdInv, CallsOk
<1>5. /\ FoldsLike' /\ Ended(turn.no)
      /\ \A t \in 1 .. turn.no : t # turn.no => readers'[t] = readers[t]
  BY <1>1, <1>2, <1>3, <1>4, RepliesPublish
<1>6. \A k \in Current : calls[k].phase = "over"
  BY DEF Replies
<1>7. ASSUME NEW k \in DOMAIN calls
      PROVE  Standing(calls[k], k, turn.no, "over", readers')
  <2> DEFINE d == calls[k]
  <2>1. d.turn \in Nat /\ d.turn <= turn.no /\ turn.no \in Nat
    BY DEF IdInv, TurnOk
  <2>2. Kept(d, readers, readers')
    <3>1. CASE d.turn # 0 /\ d.turn # turn.no
      <4>1. d.turn \in 1 .. turn.no
        BY <2>1, <3>1
      <4> QED
        BY <1>5, <3>1, <4>1 DEF Kept, Heard
    <3>2. CASE d.turn = turn.no
      BY <1>5, <3>2 DEF Kept, Heard, Ended
    <3> QED
      BY <3>1, <3>2 DEF Kept
  <2>3. Standing(d, k, turn.no, turn.phase, readers')
    BY <2>2, StandsNow, StillStands
  <2>4. d.origin = "model" /\ d.turn = turn.no => d.phase = "over"
    BY <1>6 DEF Current, OfModel
  <2> QED
    BY <2>3, <2>4 DEF Standing, ModelStands
<1>8. Current' = Current
  BY <1>1 DEF Current, OfModel
<1>9. AnswerInv'
  BY <1>1, <1>6, <1>7, <1>8 DEF AnswerInv, ProgramsApart, OfModel
<1> QED
  BY <1>5, <1>9

\* A turn begins: its live state runs and has no call.
LEMMA BeginsAnswers ==
    ASSUME IdInv, IdInv', AnswerInv, FoldsLike, TurnBegins
    PROVE  AnswerInv' /\ FoldsLike'
<1> DEFINE a == Event("run_started", NoCall, 0)
           b == Event("iteration_started", NoCall, 1)
           no == turn.no + 1
           events == <<a, b>>
<1>1. /\ turn.phase = "over" /\ turn'.no = no /\ turn'.phase = "streaming" /\ calls' = calls
      /\ PublishesAs(no, events, TRUE)
  BY DEF TurnBegins
<1>2. /\ IsEvent(a) /\ IsEvent(b) /\ a.seq = 0 /\ b.seq = 0
      /\ a.kind = "run_started" /\ b.kind = "iteration_started"
  BY DEF Event, IsEvent
<1> HIDE DEF a, b
<1>3. IsList(events, 2) /\ events[1] = a /\ events[2] = b
  BY DEF IsList
<1>4. \A i \in 1 .. 2 : i = 1 \/ i = 2
  OBVIOUS
<1>5. turn.no \in Nat /\ no \in Nat /\ no # 0 /\ Followed
  BY DEF IdInv, TurnOk, FoldsLike
<1> HIDE DEF events
<1>6. AllSame
  BY <1>1, CallFields DEF AllSame, IdInv, CallsOk
<1> DEFINE M == ModelIds(no)
<1>7. CallsGrow /\ \A t : t = no => M = ModelIds(t)'
  BY <1>6, SameIds
<1> HIDE DEF M
<1>8. Publishable(events, 2, no, TRUE) /\ EventsFit(events, 2, TRUE, M, ProgramIds')
  BY <1>2, <1>3, <1>4, <1>5 DEF Publishable, EventsFit, ForBoth, CallKinds
<1>0. PublishesAs(no, events, TRUE) /\ turn'.no = no
  BY <1>1
<1> HIDE DEF no
<1> DEFINE n == 2
<1>15. Publishable(events, n, no, TRUE) /\ EventsFit(events, n, TRUE, M, ProgramIds')
  BY <1>8
<1> HIDE DEF n
<1>16. /\ FoldsLike'
       /\ \A t \in 1 .. turn.no : t # no => states'[t] = states[t] /\ readers'[t] = readers[t]
       /\ no # 0 => Folding(events, n, no, TRUE)
  BY <1>0, <1>7, <1>15, Publish
<1>9. /\ FoldsLike'
      /\ \A t \in 1 .. turn.no : t # no => states'[t] = states[t] /\ readers'[t] = readers[t]
      /\ Folding(events, 2, no, TRUE)
  BY <1>5, <1>16 DEF n
<1>10. PICK of :
          /\ IsList(of, 2)
          /\ \A i \in 1 .. 2 : of[i] = [events[i] EXCEPT !.run = no]
          /\ states'[no] = AllApplied(Of(states, no), of)
  BY <1>9 DEF Folding
<1>11. ASSUME NEW i \in 1 .. 2 PROVE of[i].kind = events[i].kind /\ of[i].run = no /\ of[i].seq = 0
  BY <1>2, <1>3, <1>4, <1>10 DEF IsEvent
<1>12. states'[no].status = "running"
  <2>1. Of(states, no) = Fresh
    <3>1. no \notin 1 .. turn.no
      BY <1>5 DEF no
    <3> QED
      BY <1>5, <3>1 DEF Of, Followed
  <2>2. of = <<of[1], of[2]>>
    BY <1>10 DEF IsList
  <2>3. states'[no] = Applied(Applied(Fresh, of[1]), of[2])
    BY <1>10, <2>1, <2>2, FoldsTwo
  <2> DEFINE h == Applied(Fresh, of[1])
  <2>4. /\ of[1].kind = "run_started" /\ of[1].run = no /\ of[1].seq = 0
        /\ of[2].kind = "iteration_started" /\ of[2].run = no /\ of[2].seq = 0
    BY <1>2, <1>3, <1>11
  <2>5. IsFold(h) /\ h.seq = 0 /\ h.run = no /\ h.status = "running"
    BY <2>4, FreshLike, LiveTakes DEF CallKinds
  <2> HIDE DEF h
  <2>6. Applied(h, of[2]).status = "running"
    BY <2>4, <2>5, LiveTakes DEF CallKinds
  <2> QED
    BY <2>3, <2>6 DEF h
<1>13. ASSUME NEW k \in DOMAIN calls
       PROVE  Standing(calls[k], k, no, "streaming", readers')
  <2> DEFINE d == calls[k]
  <2>1. d.turn \in Nat /\ d.turn <= turn.no /\ d.turn # no
    BY <1>5 DEF IdInv, TurnOk, no
  <2>2. Kept(d, readers, readers')
    <3>1. CASE d.turn # 0
      <4>1. d.turn \in 1 .. turn.no
        BY <1>5, <2>1, <3>1
      <4> QED
        BY <1>9, <2>1, <4>1 DEF Kept, Heard
    <3> QED
      BY <3>1 DEF Kept
  <2>3. Standing(d, k, turn.no, "over", readers')
    BY <1>1, <2>2, StandsNow, StillStands
  <2> QED
    BY <2>1, <2>3 DEF Standing, ModelStands, KnownOf
<1>14. AnswerInv'
  BY <1>1, <1>5, <1>12, <1>13 DEF AnswerInv, ProgramsApart, OfModel
<1> QED
  BY <1>9, <1>14

\* Every step keeps the inductive invariant.
LEMMA AnswersNext ==
    ASSUME IdInv, AnswerInv, FoldsLike, [Next]_vars
    PROVE  AnswerInv' /\ FoldsLike'
<1>0. IdInv'
  BY IdsNext
<1>1. CASE UNCHANGED vars \/ Switch
  <2>1. UNCHANGED <<turn, calls, channel>>
    BY <1>1 DEF vars, channel, Switch
  <2> QED
    BY <1>0, <2>1, IdleAnswers
<1>2. CASE TurnBegins
  BY <1>0, <1>2, BeginsAnswers
<1>3. CASE Says \/ Notices
  BY <1>0, <1>3, SpeaksAnswers
<1>4. CASE CallForms
  BY <1>0, <1>4, FormsAnswers
<1>5. CASE ResponseEnds
  BY <1>0, <1>5, ResponseEndsAnswers
<1>6. CASE Replies
  BY <1>0, <1>6, RepliesAnswers
<1>7. CASE CancelTurn \/ Fails
  BY <1>0, <1>7, EndsAnswers
<1>8. ASSUME NEW k \in DOMAIN calls, CallStep(k) PROVE AnswerInv' /\ FoldsLike'
  BY <1>0, <1>8, AnnounceAnswers, OutputsAnswers, ToolEndsAnswers, CompletesAnswers,
     NestedAnswers DEF CallStep
<1>9. CASE \E tool \in Tools : CallsAlone(tool.name)
  BY <1>0, <1>9, AloneAnswers
<1> QED
  BY <1>1, <1>2, <1>3, <1>4, <1>5, <1>6, <1>7, <1>8, <1>9 DEF Next

LEMMA AnswersAlways == Spec => [](IdInv /\ AnswerInv /\ FoldsLike)
<1>1. Init => IdInv /\ AnswerInv /\ FoldsLike
  BY IdsInit, AnswerInit
<1>2. IdInv /\ AnswerInv /\ FoldsLike /\ [Next]_vars => (IdInv /\ AnswerInv /\ FoldsLike)'
  BY IdsNext, AnswersNext
<1> QED
  BY <1>1, <1>2, PTL DEF Spec

\* A fold without its count and without the calls that are not of "M".
Side(f, M) == [f EXCEPT !.seq = 0, !.calls = Restrict(@, DOMAIN @ \intersect M)]

\* The fields of that side.
LEMMA SideIs ==
    ASSUME NEW f, IsFold(f), NEW M
    PROVE  Side(f, M) = [run |-> f.run, status |-> f.status, iteration |-> f.iteration,
                         content |-> f.content, answer |-> f.answer, usage |-> f.usage,
                         calls |-> [id \in DOMAIN f.calls \cap M |-> f.calls[id]], seq |-> 0]
<1> DEFINE F == [id \in DOMAIN f.calls \cap M |-> f.calls[id]]
<1>1. Restrict(f.calls, DOMAIN f.calls \cap M) = F
  BY DEF Restrict
<1>2. Side(f, M) = [f EXCEPT !.seq = 0, !.calls = F]
  BY <1>1 DEF Side
<1> HIDE DEF F
<1>3. [[f EXCEPT !.seq = 0] EXCEPT !.calls = F]
      = [run |-> f.run, status |-> f.status, iteration |-> f.iteration, content |-> f.content,
         answer |-> f.answer, usage |-> f.usage, calls |-> F, seq |-> 0]
  <2> DEFINE r == f.run
             st == f.status
             it == f.iteration
             co == f.content
             an == f.answer
             us == f.usage
             ca == f.calls
             se == f.seq
  <2>1. f = [run |-> r, status |-> st, iteration |-> it, content |-> co, answer |-> an,
             usage |-> us, calls |-> ca, seq |-> se]
    BY DEF IsFold
  <2> HIDE DEF r, st, it, co, an, us, ca, se
  <2>2. [f EXCEPT !.seq = 0]
        = [run |-> r, status |-> st, iteration |-> it, content |-> co, answer |-> an,
           usage |-> us, calls |-> ca, seq |-> 0]
    BY <2>1
  <2> DEFINE g == [f EXCEPT !.seq = 0]
  <2>4. g = [run |-> r, status |-> st, iteration |-> it, content |-> co, answer |-> an,
             usage |-> us, calls |-> ca, seq |-> 0]
    BY <2>2
  <2> HIDE DEF g
  <2>5. [g EXCEPT !.calls = F]
        = [run |-> r, status |-> st, iteration |-> it, content |-> co, answer |-> an,
           usage |-> us, calls |-> F, seq |-> 0]
    BY <2>4
  <2>3. [[f EXCEPT !.seq = 0] EXCEPT !.calls = F]
        = [run |-> r, status |-> st, iteration |-> it, content |-> co, answer |-> an,
           usage |-> us, calls |-> F, seq |-> 0]
    BY <2>5 DEF g
  <2> QED
    BY <2>3 DEF r, st, it, co, an, us, ca, se
<1> QED
  BY <1>2, <1>3 DEF F

\* What the live state has of a run is what anyone has who folds the channel.
LEMMA LikeAgrees ==
    ASSUME NEW f, NEW g, NEW M, NEW P, Like(f, g, M, P), M \cap P = {}
    PROVE  Side(f, M) = Side(g, M)
<1> DEFINE F == [id \in DOMAIN f.calls \cap M |-> f.calls[id]]
           G == [id \in DOMAIN g.calls \cap M |-> g.calls[id]]
<1>1. DOMAIN f.calls \cap M = DOMAIN g.calls \cap M
  BY DEF Like
<1>2. F = G
  BY <1>1 DEF Like
<1>3. /\ IsFold(f) /\ IsFold(g)
      /\ f.run = g.run /\ f.status = g.status /\ f.iteration = g.iteration
      /\ f.content = g.content /\ f.answer = g.answer /\ f.usage = g.usage
  BY DEF Like, Same
<1> HIDE DEF F, G
<1>4. /\ Side(f, M) = [run |-> f.run, status |-> f.status, iteration |-> f.iteration,
                       content |-> f.content, answer |-> f.answer, usage |-> f.usage,
                       calls |-> F, seq |-> 0]
      /\ Side(g, M) = [run |-> g.run, status |-> g.status, iteration |-> g.iteration,
                       content |-> g.content, answer |-> g.answer, usage |-> g.usage,
                       calls |-> G, seq |-> 0]
  BY <1>3, SideIs DEF F, G
<1> QED
  BY <1>2, <1>3, <1>4

\* core/state.py and core/channel.py: whoever folds the events of several runs, and
\* folds parts of them again after a reconnect, holds of each run what its live
\* state holds, but for the calls a program made.
THEOREM ReadersAlwaysAgree == Spec => []ReaderAgrees
<1>1. IdInv /\ FoldsLike => ReaderAgrees
  <2> SUFFICES ASSUME IdInv, FoldsLike, NEW t \in DOMAIN states
               PROVE  ModelSide(readers[t], t) = ModelSide(states[t], t)
    BY DEF ReaderAgrees
  <2>1. Like(readers[t], states[t], ModelIds(t), ProgramIds)
    BY DEF FoldsLike, Followed
  <2>2. ModelIds(t) \cap ProgramIds = {}
    BY IdsDisjoint DEF Disjoint
  <2>3. Side(readers[t], ModelIds(t)) = Side(states[t], ModelIds(t))
    BY <2>1, <2>2, LikeAgrees
  <2> QED
    BY <2>3 DEF ModelSide, Side, ModelIds, ModelCallsOf
<1> QED
  BY <1>1, AnswersAlways, PTL

\* core/dispatcher.py: a turn that was not cut off leaves no call open in its live
\* state, whoever follows the channel has the verdict of every call that ended
\* while its turn was current, and no two calls of a turn share an identity.
THEOREM CallsAlwaysAnswered == Spec => []CallsAnswered
<1>1. IdInv /\ AnswerInv /\ FoldsLike => CallsAnswered
  <2> SUFFICES ASSUME IdInv, AnswerInv, FoldsLike PROVE CallsAnswered
    OBVIOUS
  <2>1. ASSUME turn.no > 0, states[turn.no].status = "done", NEW id \in DOMAIN states[turn.no].calls
        PROVE  states[turn.no].calls[id].status \in Statuses \ {"none"}
    <3>1. turn.no \in Nat /\ turn.no # 0 /\ turn.no \in 1 .. turn.no
      BY <2>1 DEF IdInv, TurnOk
    <3>2. Like(readers[turn.no], states[turn.no], ModelIds(turn.no), ProgramIds)
      BY <3>1 DEF FoldsLike
    <3>3. id \in ModelIds(turn.no) /\ readers[turn.no].calls[id] = states[turn.no].calls[id]
      BY <3>2 DEF Like
    <3>4. PICK k \in DOMAIN calls : OfModel(k) /\ calls[k].turn = turn.no /\ calls[k].id = id
      BY <3>3 DEF ModelIds, ModelCallsOf
    <3>5. calls[k].phase = "over"
      BY <2>1, <3>1, <3>4 DEF AnswerInv, Current
    <3>6. Typed(calls[k], k) /\ KnownOf(calls[k], turn.no, readers)
          /\ ModelStands(calls[k], turn.no, turn.phase)
      BY <3>4, StandsNow
    <3>7. readers[turn.no].calls[id].status \in Verdicts
      BY <3>4, <3>5, <3>6 DEF Typed, KnownOf, ModelStands
    <3> QED
      BY <3>3, <3>7 DEF Statuses, Verdicts
  <2>2. ASSUME NEW k \in DOMAIN calls, calls[k].phase = "over", ~Alone(k),
               calls[k].ended = calls[k].turn
        PROVE  readers[calls[k].turn].calls[calls[k].id].status = calls[k].status
    BY <2>2, StandsNow DEF KnownOf, AloneId, Alone
  <2>3. IdsApart
    BY DEF IdInv
  <2> QED
    BY <2>1, <2>2, <2>3 DEF CallsAnswered
<1> QED
  BY <1>1, AnswersAlways, PTL

-----------------------------------------------------------------------------
(* The screen                                                              *)

\* Where a list has an item.
Places(list, x) == {n \in DOMAIN list : list[n] = x}

LEMMA PlacesFinite ==
    ASSUME NEW list, NEW n, IsList(list, n), NEW x
    PROVE  IsFiniteSet(Places(list, x)) /\ Cardinality(Places(list, x)) \in Nat
<1>1. DOMAIN list = 1 .. n /\ n \in Nat
  BY DEF IsList
<1>2. Places(list, x) \subseteq 1 .. n /\ IsFiniteSet(1 .. n)
  BY <1>1, FS_Interval DEF Places
<1> QED
  BY <1>2, FS_Subset, FS_CardinalityType

\* A list made longer has its new item once more.
LEMMA PlacesAppend ==
    ASSUME NEW list, NEW n, IsList(list, n), NEW e, NEW x
    PROVE  Cardinality(Places(Append(list, e), x))
           = Cardinality(Places(list, x)) + IF x = e THEN 1 ELSE 0
<1> DEFINE more == Append(list, e)
           old == Places(list, x)
<1>1. /\ DOMAIN list = 1 .. n /\ DOMAIN more = 1 .. n + 1 /\ more[n + 1] = e /\ n \in Nat
      /\ \A k \in 1 .. n : more[k] = list[k]
  BY ListAppend DEF IsList
<1>2. IsFiniteSet(old) /\ Cardinality(old) \in Nat
  BY PlacesFinite
<1> HIDE DEF more
<1>3. Places(more, x) = IF x = e THEN old \union {n + 1} ELSE old
  BY <1>1 DEF Places
<1>4. n + 1 \notin old
  BY <1>1 DEF Places
<1> HIDE DEF old
<1>5. Cardinality(old \union {n + 1}) = Cardinality(old) + 1
  BY <1>2, <1>4, FS_AddElement
<1> QED
  BY <1>2, <1>3, <1>5 DEF more, old

\* A list with one item replaced has it once less, and the new one once more.
LEMMA PlacesSet ==
    ASSUME NEW list, NEW n, IsList(list, n), NEW i \in 1 .. n, NEW e, NEW x
    PROVE  Cardinality(Places([list EXCEPT ![i] = e], x))
           = (Cardinality(Places(list, x)) - IF x = list[i] THEN 1 ELSE 0)
             + IF x = e THEN 1 ELSE 0
<1> DEFINE q == [list EXCEPT ![i] = e]
           old == Places(list, x)
           rest == old \ {i}
<1>1. /\ DOMAIN list = 1 .. n /\ DOMAIN q = 1 .. n /\ q[i] = e /\ n \in Nat
      /\ \A k \in 1 .. n : k # i => q[k] = list[k]
  BY DEF IsList
<1>2. IsFiniteSet(old) /\ Cardinality(old) \in Nat
  BY PlacesFinite
<1> HIDE DEF q
<1>3. Places(q, x) = IF x = e THEN rest \union {i} ELSE rest
  BY <1>1 DEF Places
<1>4. i \in old <=> x = list[i]
  BY <1>1 DEF Places
<1> HIDE DEF old
<1>5. IsFiniteSet(rest) /\ Cardinality(rest) = IF i \in old THEN Cardinality(old) - 1
                                               ELSE Cardinality(old)
  BY <1>2, FS_RemoveElement
<1>6. Cardinality(rest) \in Nat
  BY <1>5, FS_CardinalityType
<1>7. Cardinality(rest \union {i}) = Cardinality(rest) + 1
  BY <1>5, FS_AddElement
<1> HIDE DEF rest
<1> QED
  BY <1>2, <1>3, <1>4, <1>5, <1>6, <1>7 DEF q, old

\* A screen: the block is the end of the lines, fits the terminal and has rows
\* of calls only.
IsScreen(s) ==
    s = [height |-> s.height, lines |-> s.lines, block |-> s.block, above |-> s.above,
         rows |-> s.rows, broken |-> s.broken]
CallLines == {"pending", "verdict"}
ScreenShape(s) ==
    /\ IsScreen(s) /\ IsList(s.lines, Len(s.lines))
    /\ s.height \in Nat /\ s.block \in Nat
    /\ s.block <= Len(s.lines) /\ s.block < s.height
    /\ \A x \in DOMAIN s.above : s.above[x] \in Nat
    /\ \A c \in DOMAIN s.rows : s.rows[c] \in Nat
    /\ \A i \in 1 .. Len(s.lines) : i > Len(s.lines) - s.block => s.lines[i].what \in CallLines

\* A line is as often on the screen as above it and in its list.
Above(s, x) == IF x \in DOMAIN s.above THEN s.above[x] ELSE 0
LEMMA CountIs ==
    ASSUME NEW s, NEW x
    PROVE  Count(s, x) = Above(s, x) + Cardinality(Places(s.lines, x))
BY DEF Count, Above, Places

LEMMA CountNat ==
    ASSUME NEW s, ScreenShape(s), NEW x
    PROVE  Above(s, x) \in Nat /\ Cardinality(Places(s.lines, x)) \in Nat /\ Count(s, x) \in Nat
<1>1. Above(s, x) \in Nat
  BY DEF ScreenShape, Above
<1>2. Cardinality(Places(s.lines, x)) \in Nat
  BY PlacesFinite DEF ScreenShape
<1> QED
  BY <1>1, <1>2, CountIs

\* Freezing the block loses no line.
LEMMA FrozenIs ==
    ASSUME NEW s, ScreenShape(s)
    PROVE  LET q == Frozen(s) IN
           /\ ScreenShape(q) /\ q.block = 0 /\ q.lines = <<>> /\ q.rows = s.rows
           /\ q.height = s.height /\ (q.broken <=> s.broken \/ DOMAIN s.rows # {})
           /\ \A x : Count(q, x) = Count(s, x)
<1> DEFINE above == [line \in DOMAIN s.above \union Range(s.lines) |-> Count(s, line)]
           broken == s.broken \/ DOMAIN s.rows # {}
           q == Frozen(s)
<1>1. q = [s EXCEPT !.lines = <<>>, !.block = 0, !.above = above, !.broken = broken]
  BY DEF Frozen
<1>2. DOMAIN above = DOMAIN s.above \union Range(s.lines)
      /\ \A x \in DOMAIN above : above[x] = Count(s, x)
  OBVIOUS
<1> HIDE DEF above, broken, q
<1>3. q = [height |-> s.height, lines |-> <<>>, block |-> 0, above |-> above,
           rows |-> s.rows, broken |-> broken]
  BY <1>1 DEF ScreenShape, IsScreen
<1>4. Len(<<>>) = 0 /\ DOMAIN <<>> = {} /\ IsList(<<>>, 0)
  BY DEF IsList
<1>5. /\ q.lines = <<>> /\ q.block = 0 /\ q.above = above /\ q.rows = s.rows
      /\ q.height = s.height /\ q.broken = broken
  BY <1>3
<1>6. ScreenShape(q)
  <2>1. IsScreen(q)
    BY <1>3 DEF IsScreen
  <2>2. \A x \in DOMAIN q.above : q.above[x] \in Nat
    BY <1>2, <1>5, CountNat
  <2> QED
    BY <1>4, <1>5, <2>1, <2>2 DEF ScreenShape
<1>7. ASSUME NEW x PROVE Count(q, x) = Count(s, x)
  <2>1. Places(q.lines, x) = {} /\ Cardinality({}) = 0
    BY <1>4, <1>5, FS_EmptySet DEF Places
  <2>2. Count(q, x) = Above(q, x)
    <3>1. Above(q, x) \in Nat
      BY <1>6, CountNat
    <3> QED
      BY <2>1, <3>1, CountIs
  <2>3. CASE x \in DOMAIN above
    BY <1>2, <1>5, <2>2, <2>3 DEF Above
  <2>4. CASE x \notin DOMAIN above
    <3>1. Places(s.lines, x) = {}
      BY <1>2, <2>4 DEF Places, Range
    <3>2. Above(s, x) = 0
      BY <1>2, <2>4 DEF Above
    <3> QED
      BY <1>5, <2>1, <2>2, <2>4, <3>1, <3>2, CountIs DEF Above
  <2> QED
    BY <2>3, <2>4
<1> QED
  BY <1>5, <1>6, <1>7 DEF q, broken

\* A line more.
LineMore(s, line, q) ==
    /\ IsScreen(q) /\ IsList(q.lines, Len(q.lines)) /\ Len(q.lines) = Len(s.lines) + 1
    /\ q.lines[Len(s.lines) + 1] = line
    /\ \A i \in 1 .. Len(s.lines) : q.lines[i] = s.lines[i]
    /\ q.block = s.block /\ q.rows = s.rows /\ q.height = s.height
    /\ q.broken = s.broken /\ q.above = s.above
    /\ \A x : Count(q, x) = Count(s, x) + IF x = line THEN 1 ELSE 0
LEMMA EmittedIs ==
    ASSUME NEW s, ScreenShape(s), NEW line
    PROVE  LineMore(s, line, Emitted(s, line))
<1> DEFINE q == Emitted(s, line)
           more == Append(s.lines, line)
           n == Len(s.lines)
<1>1. q = [s EXCEPT !.lines = more]
  BY DEF Emitted
<1>2. IsList(s.lines, n)
  BY DEF ScreenShape
<1>3. /\ IsList(more, n + 1) /\ more[n + 1] = line /\ n \in Nat
      /\ \A k \in 1 .. n : more[k] = s.lines[k]
  BY <1>2, ListAppend DEF IsList
<1>4. Len(more) = n + 1
  BY <1>3, ListAppend
<1>5. \A x : Cardinality(Places(more, x))
             = Cardinality(Places(s.lines, x)) + IF x = line THEN 1 ELSE 0
  BY <1>2, PlacesAppend
<1> HIDE DEF q, more, n
<1>6. q = [height |-> s.height, lines |-> more, block |-> s.block, above |-> s.above,
           rows |-> s.rows, broken |-> s.broken]
  BY <1>1 DEF ScreenShape, IsScreen
<1>7. /\ IsScreen(q) /\ q.lines = more /\ q.block = s.block /\ q.rows = s.rows
      /\ q.height = s.height /\ q.broken = s.broken /\ q.above = s.above
  BY <1>6 DEF IsScreen
<1>8. ASSUME NEW x PROVE Count(q, x) = Count(s, x) + IF x = line THEN 1 ELSE 0
  <2>1. Above(q, x) = Above(s, x)
    BY <1>7 DEF Above
  <2>2. Above(s, x) \in Nat /\ Cardinality(Places(s.lines, x)) \in Nat
    BY CountNat
  <2>3. Count(q, x) = Above(s, x) + Cardinality(Places(more, x))
    BY <1>7, <2>1, CountIs
  <2> QED
    BY <1>5, <2>2, <2>3, CountIs
<1> QED
  BY <1>3, <1>4, <1>7, <1>8 DEF q, n, LineMore

\* What is printed below the block freezes it.
LEMMA PrintedIs ==
    ASSUME NEW s, ScreenShape(s), NEW line
    PROVE  LET q == Printed(s, line) IN
           /\ ScreenShape(q) /\ q.block = 0 /\ q.rows = s.rows /\ q.height = s.height
           /\ (q.broken <=> s.broken \/ DOMAIN s.rows # {})
           /\ \A x : Count(q, x) = Count(s, x) + IF x = line THEN 1 ELSE 0
<1> DEFINE f == Frozen(s)
           q == Emitted(f, line)
<1>1. /\ ScreenShape(f) /\ f.block = 0 /\ f.lines = <<>> /\ f.rows = s.rows
      /\ f.height = s.height /\ (f.broken <=> s.broken \/ DOMAIN s.rows # {})
      /\ \A x : Count(f, x) = Count(s, x)
  BY FrozenIs
<1>2. Printed(s, line) = q
  BY DEF Printed
<1> HIDE DEF f
<1>0. LineMore(f, line, q)
  BY <1>1, EmittedIs
<1> HIDE DEF q
<1>3. /\ IsScreen(q) /\ IsList(q.lines, Len(q.lines)) /\ Len(q.lines) = Len(f.lines) + 1
      /\ q.block = f.block /\ q.rows = f.rows /\ q.height = f.height
      /\ q.broken = f.broken /\ q.above = f.above
      /\ \A x : Count(q, x) = Count(f, x) + IF x = line THEN 1 ELSE 0
  BY <1>0 DEF LineMore
<1>4. Len(q.lines) \in Nat
  BY <1>3 DEF IsList
<1>5. ScreenShape(q)
  BY <1>1, <1>3, <1>4 DEF ScreenShape
<1> QED
  BY <1>1, <1>2, <1>3, <1>5

\* A row of the block written again.
LEMMA RewrittenIs ==
    ASSUME NEW s, ScreenShape(s), NEW row \in 1 .. s.block, NEW line, line.what \in CallLines
    PROVE  LET q == Rewritten(s, row, line)
               at == Len(s.lines) - s.block + row
           IN  /\ ScreenShape(q) /\ q.block = s.block /\ q.rows = s.rows /\ q.height = s.height
               /\ q.broken = s.broken /\ Len(q.lines) = Len(s.lines)
               /\ at \in 1 .. Len(s.lines) /\ s.lines[at].what \in CallLines
               /\ \A i \in 1 .. Len(s.lines) : i # at => q.lines[i] = s.lines[i]
               /\ \A x : Count(q, x) = (Count(s, x) - IF x = s.lines[at] THEN 1 ELSE 0)
                                       + IF x = line THEN 1 ELSE 0
<1> DEFINE q == Rewritten(s, row, line)
           n == Len(s.lines)
           at == n - s.block + row
           lines == [s.lines EXCEPT ![at] = line]
<1>1. /\ n \in Nat /\ s.block \in Nat /\ s.block <= n /\ IsList(s.lines, n)
      /\ row # NoRow /\ ~(row > s.block)
  BY DEF ScreenShape, IsList, NoRow
<1>2. at \in 1 .. n /\ at > n - s.block
  BY <1>1
<1>3. q = [s EXCEPT !.lines = lines]
  BY <1>1 DEF Rewritten, IsScreen, ScreenShape
<1>4. /\ IsList(lines, n) /\ lines[at] = line
      /\ \A i \in 1 .. n : i # at => lines[i] = s.lines[i]
  <2> HIDE DEF at
  <2> QED
    BY <1>1, <1>2 DEF IsList
<1>5. Len(lines) = n
  BY <1>4, ListAppend
<1>6. ASSUME NEW x
      PROVE  Cardinality(Places(lines, x))
             = (Cardinality(Places(s.lines, x)) - IF x = s.lines[at] THEN 1 ELSE 0)
               + IF x = line THEN 1 ELSE 0
  <2>1. ASSUME NEW a \in 1 .. n
        PROVE  Cardinality(Places([s.lines EXCEPT ![a] = line], x))
               = (Cardinality(Places(s.lines, x)) - IF x = s.lines[a] THEN 1 ELSE 0)
                 + IF x = line THEN 1 ELSE 0
    <3> DEFINE list == s.lines
    <3>1. IsList(list, n)
      BY <1>1
    <3> HIDE DEF n, at, q, lines, list
    <3>2. Cardinality(Places([list EXCEPT ![a] = line], x))
          = (Cardinality(Places(list, x)) - IF x = list[a] THEN 1 ELSE 0)
            + IF x = line THEN 1 ELSE 0
      BY <3>1, PlacesSet
    <3> QED
      BY <3>2 DEF list
  <2> HIDE DEF at, n
  <2> QED
    BY <1>2, <2>1
<1> HIDE DEF q, lines
<1>7. q = [height |-> s.height, lines |-> lines, block |-> s.block, above |-> s.above,
           rows |-> s.rows, broken |-> s.broken]
  BY <1>3 DEF ScreenShape, IsScreen
<1>8. /\ IsScreen(q) /\ q.lines = lines /\ q.block = s.block /\ q.rows = s.rows
      /\ q.height = s.height /\ q.broken = s.broken /\ q.above = s.above
  BY <1>7 DEF IsScreen
<1>9. ScreenShape(q)
  <2>1. \A i \in 1 .. n : i > n - s.block => lines[i].what \in CallLines
    BY <1>4 DEF ScreenShape
  <2> HIDE DEF n, at
  <2>2. Len(q.lines) = n /\ IsList(q.lines, n) /\ s.block <= n
    BY <1>1, <1>4, <1>5, <1>8
  <2> QED
    BY <1>8, <2>1, <2>2 DEF ScreenShape
<1>10. ASSUME NEW x
       PROVE  Count(q, x) = (Count(s, x) - IF x = s.lines[at] THEN 1 ELSE 0)
                            + IF x = line THEN 1 ELSE 0
  <2>1. Above(q, x) = Above(s, x)
    BY <1>8 DEF Above
  <2>2. Above(s, x) \in Nat /\ Cardinality(Places(s.lines, x)) \in Nat
    BY CountNat
  <2>3. Count(q, x) = Above(s, x) + Cardinality(Places(lines, x))
    BY <1>8, <2>1, CountIs
  <2> HIDE DEF at, n
  <2> QED
    BY <1>6, <2>2, <2>3, CountIs
<1>11. s.lines[at].what \in CallLines
  BY <1>2 DEF ScreenShape
<1> HIDE DEF at
<1>12. \A i \in 1 .. n : i # at => q.lines[i] = s.lines[i]
  BY <1>4, <1>8
<1> QED
  BY <1>2, <1>5, <1>8, <1>9, <1>10, <1>11, <1>12 DEF q, n, at
LEMMA LinesApart ==
    ASSUME NEW a, NEW b, NEW c, NEW d
    PROVE  /\ Line(a, b) = Line(c, d) <=> a = c /\ b = d
           /\ Line(a, b).what = a
BY DEF Line

\* A call that owns a row of the block, and what the screen has of all calls
\* while nothing froze such a row.
HasRow(s, call) == RowOf(s, call) # NoRow
RowsAre(s, V) ==
    /\ \A id : Count(s, Line("pending", id)) = IF HasRow(s, id) THEN 1 ELSE 0
    /\ \A id : Count(s, Line("verdict", id)) = IF id \in V THEN 1 ELSE 0
    /\ \A id : HasRow(s, id) =>
           /\ RowOf(s, id) <= s.block
           /\ s.lines[(Len(s.lines) - s.block) + RowOf(s, id)] = Line("pending", id)

\* The screen of "n" notices and of the verdicts of "V".
NoticeLine == Line("notice", NoCall)
ScreenOk(s, n, V) ==
    ScreenShape(s) /\ Count(s, NoticeLine) = n /\ (s.broken \/ RowsAre(s, V))

LEMMA BlankOk ==
    ASSUME NEW height \in Nat \ {0}
    PROVE  ScreenOk(Blank(height), 0, {})
<1> DEFINE s == Blank(height)
<1>1. s = [height |-> height, lines |-> <<>>, block |-> 0, above |-> <<>>, rows |-> <<>>,
           broken |-> FALSE]
  BY DEF Blank
<1> HIDE DEF s
<1>2. /\ s.height = height /\ s.lines = <<>> /\ s.block = 0 /\ s.above = <<>> /\ s.rows = <<>>
      /\ IsScreen(s)
  BY <1>1 DEF IsScreen
<1>3. Len(<<>>) = 0 /\ DOMAIN <<>> = {} /\ IsList(<<>>, 0)
  BY DEF IsList
<1>4. ScreenShape(s)
  BY <1>2, <1>3 DEF ScreenShape
<1>5. ASSUME NEW x PROVE Count(s, x) = 0
  <2>1. Places(s.lines, x) = {} /\ Cardinality({}) = 0 /\ Above(s, x) = 0
    BY <1>2, <1>3, FS_EmptySet DEF Places, Above
  <2> QED
    BY <2>1, CountIs
<1>6. \A id : ~HasRow(s, id)
  BY <1>2, <1>3 DEF HasRow, RowOf
<1> QED
  BY <1>4, <1>5, <1>6 DEF ScreenOk, RowsAre, s

\* No row, no pending line: nothing but counts is left to say.
LEMMA NoRows ==
    ASSUME NEW s, NEW V, DOMAIN s.rows = {},
           \A id : Count(s, Line("pending", id)) = 0,
           \A id : Count(s, Line("verdict", id)) = IF id \in V THEN 1 ELSE 0
    PROVE  RowsAre(s, V)
<1>1. \A id : ~HasRow(s, id)
  BY DEF HasRow, RowOf
<1> QED
  BY <1>1 DEF RowsAre

\* Streamed text freezes the block.
LEMMA TextDrawn ==
    ASSUME NEW s, NEW n, NEW V, ScreenOk(s, n, V)
    PROVE  ScreenOk(Frozen(s), n, V)
<1> DEFINE q == Frozen(s)
<1>1. /\ ScreenShape(q) /\ q.rows = s.rows /\ (q.broken <=> s.broken \/ DOMAIN s.rows # {})
      /\ \A x : Count(q, x) = Count(s, x)
  BY FrozenIs DEF ScreenOk
<1> HIDE DEF q
<1>2. ASSUME ~q.broken PROVE RowsAre(q, V)
  <2>1. ~s.broken /\ DOMAIN s.rows = {} /\ RowsAre(s, V)
    BY <1>1, <1>2 DEF ScreenOk
  <2>2. \A id : ~HasRow(s, id)
    BY <2>1 DEF HasRow, RowOf
  <2> QED
    BY <1>1, <2>1, <2>2, NoRows DEF RowsAre
<1> QED
  BY <1>1, <1>2 DEF ScreenOk, q

\* A notice freezes the block and stands below it.
LEMMA NoticeDrawn ==
    ASSUME NEW s, NEW n, NEW V, ScreenOk(s, n, V)
    PROVE  ScreenOk(Printed(s, NoticeLine), n + 1, V)
<1> DEFINE q == Printed(s, NoticeLine)
<1>1. /\ ScreenShape(q) /\ q.rows = s.rows /\ (q.broken <=> s.broken \/ DOMAIN s.rows # {})
      /\ \A x : Count(q, x) = Count(s, x) + IF x = NoticeLine THEN 1 ELSE 0
  BY PrintedIs DEF ScreenOk
<1> HIDE DEF q
<1>2. \A id : Line("pending", id) # NoticeLine /\ Line("verdict", id) # NoticeLine
  BY LinesApart DEF NoticeLine
<1>3. \A x : Count(s, x) \in Nat
  BY CountNat DEF ScreenOk
<1>4. ASSUME NEW id
      PROVE  /\ Count(q, Line("pending", id)) = Count(s, Line("pending", id))
             /\ Count(q, Line("verdict", id)) = Count(s, Line("verdict", id))
  BY <1>1, <1>2, <1>3
<1>5. Count(q, NoticeLine) = n + 1
  BY <1>1 DEF ScreenOk
<1>6. ASSUME ~q.broken PROVE RowsAre(q, V)
  <2>1. ~s.broken /\ DOMAIN s.rows = {} /\ RowsAre(s, V)
    BY <1>1, <1>6 DEF ScreenOk
  <2>2. \A id : ~HasRow(s, id)
    BY <2>1 DEF HasRow, RowOf
  <2> QED
    BY <1>1, <1>4, <2>1, <2>2, NoRows DEF RowsAre
<1> QED
  BY <1>1, <1>5, <1>6 DEF ScreenOk, q

\* A row for a call, and the call's row taken away.
LEMMA WithRowIs ==
    ASSUME NEW s, IsScreen(s), NEW call, NEW row
    PROVE  LET q == WithRow(s, call, row) IN
           /\ IsScreen(q) /\ q.lines = s.lines /\ q.block = s.block /\ q.height = s.height
           /\ q.above = s.above /\ q.broken = s.broken
           /\ DOMAIN q.rows = DOMAIN s.rows \union {call}
           /\ q.rows[call] = row
           /\ \A id \in DOMAIN s.rows : id # call => q.rows[id] = s.rows[id]
           /\ RowOf(q, call) = row /\ \A id : id # call => RowOf(q, id) = RowOf(s, id)
           /\ \A x : Count(q, x) = Count(s, x)
<1> DEFINE rows == [c \in DOMAIN s.rows \union {call} |-> IF c = call THEN row ELSE s.rows[c]]
           q == WithRow(s, call, row)
<1>1. q = [s EXCEPT !.rows = rows]
  BY DEF WithRow
<1>2. /\ DOMAIN rows = DOMAIN s.rows \union {call} /\ rows[call] = row
      /\ \A id \in DOMAIN s.rows : id # call => rows[id] = s.rows[id]
  OBVIOUS
<1> HIDE DEF rows, q
<1>3. q = [height |-> s.height, lines |-> s.lines, block |-> s.block, above |-> s.above,
           rows |-> rows, broken |-> s.broken]
  BY <1>1 DEF IsScreen
<1>4. /\ IsScreen(q) /\ q.lines = s.lines /\ q.block = s.block /\ q.height = s.height
      /\ q.above = s.above /\ q.broken = s.broken /\ q.rows = rows
  BY <1>3 DEF IsScreen
<1>5. \A x : Count(q, x) = Count(s, x)
  BY <1>4 DEF Count
<1>6. RowOf(q, call) = row /\ \A id : id # call => RowOf(q, id) = RowOf(s, id)
  BY <1>2, <1>4 DEF RowOf
<1> QED
  BY <1>2, <1>4, <1>5, <1>6 DEF q

LEMMA WithoutRowIs ==
    ASSUME NEW s, ScreenShape(s), NEW call
    PROVE  LET q == WithoutRow(s, call) IN
           /\ ScreenShape(q) /\ q.lines = s.lines /\ q.block = s.block
           /\ q.broken = s.broken /\ DOMAIN q.rows = DOMAIN s.rows \ {call}
           /\ ~HasRow(q, call) /\ \A id : id # call => RowOf(q, id) = RowOf(s, id)
           /\ \A x : Count(q, x) = Count(s, x)
<1> DEFINE rows == [c \in DOMAIN s.rows \ {call} |-> s.rows[c]]
           q == WithoutRow(s, call)
<1>1. q = [s EXCEPT !.rows = rows]
  BY DEF WithoutRow
<1>2. /\ DOMAIN rows = DOMAIN s.rows \ {call}
      /\ \A id \in DOMAIN s.rows : id # call => rows[id] = s.rows[id]
  OBVIOUS
<1> HIDE DEF rows, q
<1>3. q = [height |-> s.height, lines |-> s.lines, block |-> s.block, above |-> s.above,
           rows |-> rows, broken |-> s.broken]
  BY <1>1 DEF ScreenShape, IsScreen
<1>4. /\ IsScreen(q) /\ q.lines = s.lines /\ q.block = s.block /\ q.height = s.height
      /\ q.above = s.above /\ q.broken = s.broken /\ q.rows = rows
  BY <1>3 DEF IsScreen
<1>5. \A x : Count(q, x) = Count(s, x)
  BY <1>4 DEF Count
<1>6. RowOf(q, call) = NoRow /\ \A id : id # call => RowOf(q, id) = RowOf(s, id)
  BY <1>2, <1>4 DEF RowOf
<1>7. ScreenShape(q)
  BY <1>2, <1>4 DEF ScreenShape
<1> QED
  BY <1>2, <1>4, <1>5, <1>6, <1>7 DEF q, HasRow

\* A row opens for a call that has none.
LEMMA CallOpened ==
    ASSUME NEW s, NEW n, NEW V, ScreenOk(s, n, V), NEW call, ~HasRow(s, call)
    PROVE  ScreenOk(Opened(s, call), n, V)
<1> DEFINE line == Line("pending", call)
           p == Placed(s, line)
           q == WithRow(p, call, RowPlaced(s))
<1>0. Opened(s, call) = q
  BY DEF Opened
<1>1. /\ ScreenShape(s) /\ IsScreen(s) /\ Len(s.lines) \in Nat /\ s.block \in Nat
      /\ s.height \in Nat /\ s.block <= Len(s.lines) /\ s.block < s.height
  BY DEF ScreenOk, ScreenShape, IsList
<1>2. CASE ~Fits(s)
  <2>1. p = s /\ RowPlaced(s) = 0
    BY <1>2 DEF Placed, RowPlaced, NoRow
  <2>2. q = WithRow(s, call, 0)
    BY <2>1
  <2> HIDE DEF q, p
  <2> DEFINE none == 0
  <2> HIDE DEF none
  <2>3. LET w == WithRow(s, call, none) IN
           /\ IsScreen(w) /\ w.lines = s.lines /\ w.block = s.block /\ w.height = s.height
           /\ w.above = s.above /\ w.broken = s.broken
           /\ DOMAIN w.rows = DOMAIN s.rows \union {call}
           /\ w.rows[call] = none
           /\ \A id \in DOMAIN s.rows : id # call => w.rows[id] = s.rows[id]
           /\ RowOf(w, call) = none /\ \A id : id # call => RowOf(w, id) = RowOf(s, id)
           /\ \A x : Count(w, x) = Count(s, x)
    BY <1>1, WithRowIs
  <2>4. /\ IsScreen(q) /\ q.lines = s.lines /\ q.block = s.block /\ q.height = s.height
        /\ q.above = s.above /\ q.broken = s.broken
        /\ \A id \in DOMAIN q.rows : q.rows[id] \in Nat
        /\ \A id : RowOf(q, id) = RowOf(s, id)
        /\ \A x : Count(q, x) = Count(s, x)
    <3>1. RowOf(s, call) = 0
      BY DEF HasRow, NoRow
    <3>2. \A id \in DOMAIN q.rows : q.rows[id] \in Nat
      BY <2>2, <2>3, <1>1 DEF none, ScreenShape
    <3> QED
      BY <2>2, <2>3, <3>1, <3>2 DEF none
  <2>5. ScreenShape(q)
    BY <1>1, <2>4 DEF ScreenShape
  <2>6. RowsAre(s, V) => RowsAre(q, V)
    BY <2>4 DEF RowsAre, HasRow
  <2> QED
    BY <1>0, <2>4, <2>5, <2>6 DEF ScreenOk
<1>3. CASE Fits(s)
  <2> DEFINE e == Emitted(s, line)
             row == s.block + 1
             m == Len(s.lines)
  <2>1. p = [e EXCEPT !.block = s.block + 1] /\ RowPlaced(s) = row
    BY <1>3, <1>1 DEF Placed, RowPlaced, Emitted, IsScreen
  <2>2. LineMore(s, line, e)
    BY <1>1, EmittedIs
  <2> HIDE DEF e
  <2>3. /\ p = [height |-> e.height, lines |-> e.lines, block |-> row, above |-> e.above,
                rows |-> e.rows, broken |-> e.broken]
    BY <2>1, <2>2 DEF LineMore, IsScreen
  <2>20. q = WithRow(p, call, row)
    BY <2>1
  <2> HIDE DEF p, q
  <2>4. /\ IsScreen(p) /\ p.lines = e.lines /\ p.block = row /\ p.height = e.height
        /\ p.above = e.above /\ p.rows = e.rows /\ p.broken = e.broken
    BY <2>3 DEF IsScreen
  <2>5. \A x : Count(p, x) = Count(e, x)
    BY <2>4 DEF Count
  <2> HIDE DEF row, line
  <2>6. LET w == WithRow(p, call, row) IN
           /\ IsScreen(w) /\ w.lines = p.lines /\ w.block = p.block /\ w.height = p.height
           /\ w.above = p.above /\ w.broken = p.broken
           /\ DOMAIN w.rows = DOMAIN p.rows \union {call}
           /\ w.rows[call] = row
           /\ \A id \in DOMAIN p.rows : id # call => w.rows[id] = p.rows[id]
           /\ RowOf(w, call) = row /\ \A id : id # call => RowOf(w, id) = RowOf(p, id)
           /\ \A x : Count(w, x) = Count(p, x)
    BY <2>4, WithRowIs
  <2>7. /\ IsScreen(q) /\ q.lines = e.lines /\ q.block = row /\ q.height = s.height
        /\ q.above = s.above /\ q.broken = s.broken
        /\ DOMAIN q.rows = DOMAIN s.rows \union {call} /\ q.rows[call] = row
        /\ \A id \in DOMAIN s.rows : id # call => q.rows[id] = s.rows[id]
        /\ RowOf(q, call) = row
        /\ \A x : Count(q, x) = Count(s, x) + IF x = line THEN 1 ELSE 0
    BY <2>2, <2>4, <2>5, <2>6, <2>20 DEF LineMore
  <2>8. \A id : id # call => RowOf(q, id) = RowOf(s, id)
    <3>1. \A id : RowOf(p, id) = RowOf(s, id)
      BY <2>2, <2>4 DEF LineMore, RowOf
    <3> QED
      BY <2>6, <2>20, <3>1
  <2>9. /\ IsList(q.lines, Len(q.lines)) /\ Len(q.lines) = m + 1 /\ q.lines[m + 1] = line
        /\ \A i \in 1 .. m : q.lines[i] = s.lines[i]
    BY <2>2, <2>7 DEF LineMore
  <2>10. row = s.block + 1 /\ row \in Nat /\ row < s.height /\ m \in Nat /\ s.block <= m
    BY <1>1, <1>3 DEF Fits, row
  <2>11. line.what \in CallLines /\ line # NoticeLine /\ (\A id : line # Line("verdict", id))
         /\ \A id : line = Line("pending", id) <=> id = call
    BY LinesApart DEF line, CallLines, NoticeLine
  <2>12. ScreenShape(q)
    <3>1. \A id \in DOMAIN q.rows : q.rows[id] \in Nat
      BY <1>1, <2>7, <2>10 DEF ScreenShape
    <3>2. ASSUME NEW i \in 1 .. m + 1, i > (m + 1) - row PROVE q.lines[i].what \in CallLines
      <4>1. CASE i = m + 1
        BY <2>9, <2>11, <4>1
      <4>2. CASE i # m + 1
        <5>1. i \in 1 .. m /\ i > m - s.block
          <6>1. m \in Nat /\ s.block \in Nat /\ row = s.block + 1
            BY <1>1, <2>10
          <6> HIDE DEF m
          <6>2. i \in Nat /\ i <= m /\ 1 <= i
            BY <4>2, <6>1
          <6> QED
            BY <3>2, <6>1, <6>2
        <5> QED
          BY <1>1, <2>9, <5>1 DEF ScreenShape
      <4> QED
        BY <4>1, <4>2
    <3>3. \A x \in DOMAIN q.above : q.above[x] \in Nat
      BY <1>1, <2>7 DEF ScreenShape
    <3> HIDE DEF m
    <3>4. row <= m + 1
      BY <1>1, <2>10
    <3> QED
      BY <1>1, <2>7, <2>9, <2>10, <3>1, <3>2, <3>3, <3>4 DEF ScreenShape
  <2>13. Count(q, NoticeLine) = n
    <3>1. Count(s, NoticeLine) = n /\ n \in Nat
      BY <1>1, CountNat DEF ScreenOk
    <3> QED
      BY <2>7, <2>11, <3>1
  <2>14. ASSUME RowsAre(s, V) PROVE RowsAre(q, V)
    <3>1. ASSUME NEW id
          PROVE  /\ Count(q, Line("pending", id)) = IF HasRow(q, id) THEN 1 ELSE 0
                 /\ Count(q, Line("verdict", id)) = IF id \in V THEN 1 ELSE 0
      <4>1. /\ Count(s, Line("pending", id)) = IF HasRow(s, id) THEN 1 ELSE 0
            /\ Count(s, Line("verdict", id)) = IF id \in V THEN 1 ELSE 0
        BY <2>14 DEF RowsAre
      <4>2. HasRow(q, id) <=> id = call \/ HasRow(s, id)
        BY <1>1, <2>7, <2>8, <2>10 DEF HasRow, NoRow
      <4>3. Count(q, Line("verdict", id)) = IF id \in V THEN 1 ELSE 0
        BY <2>7, <2>11, <4>1
      <4>4. Count(q, Line("pending", id))
            = Count(s, Line("pending", id)) + IF id = call THEN 1 ELSE 0
        BY <2>7, <2>11
      <4>5. Count(q, Line("pending", id)) = IF HasRow(q, id) THEN 1 ELSE 0
        BY <4>1, <4>2, <4>4
      <4> QED
        BY <4>3, <4>5
    <3>2. ASSUME NEW id, HasRow(q, id)
          PROVE  /\ RowOf(q, id) <= row
                 /\ q.lines[((m + 1) - row) + RowOf(q, id)] = Line("pending", id)
      <4>1. CASE id = call
        <5>1. ((m + 1) - row) + row = m + 1 /\ row <= row
          BY <2>10
        <5> QED
          BY <2>7, <2>9, <2>11, <4>1, <5>1
      <4>2. CASE id # call
        <5> DEFINE r == RowOf(s, id)
        <5>1. RowOf(q, id) = r /\ r # 0 /\ r \in Nat
          BY <1>1, <2>8, <3>2, <4>2 DEF HasRow, NoRow, RowOf, ScreenShape
        <5>2. r <= s.block /\ s.lines[(m - s.block) + r] = Line("pending", id)
          BY <2>14, <5>1 DEF RowsAre, HasRow, NoRow
        <5> HIDE DEF r
        <5>3. /\ ((m + 1) - row) + r = (m - s.block) + r
              /\ (m - s.block) + r \in 1 .. m /\ r <= row
          BY <1>1, <2>10, <5>1, <5>2
        <5> QED
          BY <2>9, <5>1, <5>2, <5>3
      <4> QED
        BY <4>1, <4>2
    <3> HIDE DEF m
    <3> QED
      BY <2>7, <2>9, <3>1, <3>2 DEF RowsAre
  <2> QED
    BY <1>0, <2>7, <2>12, <2>13, <2>14 DEF ScreenOk
<1> QED
  BY <1>2, <1>3
\* A call that has a row gets its pending line there again.
LEMMA PendingDrawn ==
    ASSUME NEW s, NEW n, NEW V, ScreenOk(s, n, V), NEW call, HasRow(s, call)
    PROVE  ScreenOk(Rewritten(s, RowOf(s, call), Line("pending", call)), n, V)
<1> DEFINE line == Line("pending", call)
           row == RowOf(s, call)
           q == Rewritten(s, row, line)
<1>1. /\ ScreenShape(s) /\ Len(s.lines) \in Nat /\ s.block \in Nat /\ s.block <= Len(s.lines)
      /\ row \in Nat /\ row # 0
  BY DEF ScreenOk, ScreenShape, IsList, HasRow, NoRow, RowOf
<1>2. line.what \in CallLines /\ line # NoticeLine
  BY LinesApart DEF line, CallLines, NoticeLine
<1>3. Count(s, NoticeLine) = n /\ \A x : Count(s, x) \in Nat
  BY CountNat DEF ScreenOk
<1>4. CASE row > s.block
  <2>1. q = Printed(s, line)
    BY <1>4 DEF Rewritten
  <2> HIDE DEF q, line
  <2>2. LET p == Printed(s, line) IN
        /\ ScreenShape(p) /\ (p.broken <=> s.broken \/ DOMAIN s.rows # {})
        /\ \A x : Count(p, x) = Count(s, x) + IF x = line THEN 1 ELSE 0
    BY <1>1, PrintedIs
  <2>3. DOMAIN s.rows # {}
    BY <1>1 DEF RowOf, NoRow
  <2>4. ScreenShape(q) /\ q.broken /\ Count(q, NoticeLine) = n
    BY <1>2, <1>3, <2>1, <2>2, <2>3
  <2> QED
    BY <2>4 DEF ScreenOk, q, line
<1>5. CASE ~(row > s.block)
  <2> DEFINE at == Len(s.lines) - s.block + row
  <2>1. row \in 1 .. s.block
    BY <1>1, <1>5
  <2> HIDE DEF line, row
  <2>2. LET p == Rewritten(s, row, line) IN
        /\ ScreenShape(p) /\ p.block = s.block /\ p.rows = s.rows
        /\ p.broken = s.broken /\ Len(p.lines) = Len(s.lines)
        /\ s.lines[at].what \in CallLines
        /\ \A i \in 1 .. Len(s.lines) : i # at => p.lines[i] = s.lines[i]
        /\ \A x : Count(p, x) = (Count(s, x) - IF x = s.lines[at] THEN 1 ELSE 0)
                                + IF x = line THEN 1 ELSE 0
    BY <1>1, <1>2, <2>1, RewrittenIs
  <2> HIDE DEF q, at
  <2>3. /\ ScreenShape(q) /\ q.block = s.block /\ q.rows = s.rows
        /\ q.broken = s.broken /\ Len(q.lines) = Len(s.lines)
        /\ s.lines[at].what \in CallLines
        /\ \A i \in 1 .. Len(s.lines) : i # at => q.lines[i] = s.lines[i]
        /\ \A x : Count(q, x) = (Count(s, x) - IF x = s.lines[at] THEN 1 ELSE 0)
                                + IF x = line THEN 1 ELSE 0
    BY <2>2 DEF q
  <2>4. Count(q, NoticeLine) = n
    <3>1. NoticeLine # s.lines[at]
      BY <2>3, LinesApart DEF NoticeLine, CallLines
    <3> QED
      BY <1>2, <1>3, <2>3, <3>1
  <2>5. ASSUME RowsAre(s, V) PROVE RowsAre(q, V)
    <3>1. s.lines[at] = line
      BY <2>5 DEF RowsAre, at, line, row
    <3>2. \A x : Count(q, x) = Count(s, x)
      BY <1>3, <2>3, <3>1
    <3>3. \A id : RowOf(q, id) = RowOf(s, id)
      BY <2>3 DEF RowOf
    <3>4. ASSUME NEW id, HasRow(q, id)
          PROVE  /\ RowOf(q, id) <= q.block
                 /\ q.lines[(Len(q.lines) - q.block) + RowOf(q, id)] = Line("pending", id)
      <4> DEFINE r == RowOf(s, id)
                 j == (Len(s.lines) - s.block) + r
      <4>1. RowOf(q, id) = r /\ r # 0 /\ r \in Nat /\ HasRow(s, id)
        BY <1>1, <3>3, <3>4 DEF HasRow, NoRow, RowOf, ScreenShape
      <4>2. r <= s.block /\ s.lines[j] = Line("pending", id)
        BY <2>5, <4>1 DEF RowsAre
      <4> HIDE DEF r
      <4>3. j \in 1 .. Len(s.lines)
        BY <1>1, <4>1, <4>2
      <4> HIDE DEF j
      <4>4. q.lines[j] = Line("pending", id)
        <5>1. CASE j = at
          <6>1. q.lines[j] = s.lines[j]
            <7>1. Rewritten(s, row, line).lines[at] = line
              <8>1. Rewritten(s, row, line) = [s EXCEPT !.lines[at] = line]
                BY <1>1, <1>5, <2>1 DEF Rewritten, at, NoRow
              <8>2. IsScreen(s) /\ DOMAIN s.lines = 1 .. Len(s.lines)
                BY <1>1 DEF ScreenShape, IsList
              <8>3. at \in DOMAIN s.lines
                BY <4>3, <5>1, <8>2
              <8> QED
                BY <8>1, <8>2, <8>3 DEF IsScreen
            <7> QED
              BY <3>1, <5>1, <7>1 DEF q
          <6> QED
            BY <4>2, <6>1
        <5>2. CASE j # at
          BY <2>3, <4>2, <4>3, <5>2
        <5> QED
          BY <5>1, <5>2
      <4> QED
        BY <2>3, <4>1, <4>2, <4>4 DEF j
    <3> QED
      BY <2>5, <3>2, <3>3, <3>4 DEF RowsAre, HasRow
  <2>6. q.broken \/ RowsAre(q, V)
    BY <2>3, <2>5 DEF ScreenOk
  <2> QED
    BY <2>3, <2>4, <2>6 DEF ScreenOk, q, row, line
<1> QED
  BY <1>4, <1>5

\* The verdict of a call takes the place of its pending line.
LEMMA VerdictDrawn ==
    ASSUME NEW s, NEW n, NEW V, ScreenOk(s, n, V), NEW call, call \notin V
    PROVE  ScreenOk(Rewritten(WithoutRow(s, call), RowOf(s, call), Line("verdict", call)),
                    n, V \union {call})
<1> DEFINE line == Line("verdict", call)
           row == RowOf(s, call)
           w == WithoutRow(s, call)
           q == Rewritten(w, row, line)
           W == V \union {call}
<1>1. /\ ScreenShape(s) /\ Len(s.lines) \in Nat /\ s.block \in Nat /\ s.block <= Len(s.lines)
      /\ row \in Nat
  BY DEF ScreenOk, ScreenShape, IsList, NoRow, RowOf
<1>2. /\ line.what \in CallLines /\ line # NoticeLine /\ \A id : line # Line("pending", id)
      /\ \A id : line = Line("verdict", id) <=> id = call
  BY LinesApart DEF line, CallLines, NoticeLine
<1>3. Count(s, NoticeLine) = n /\ \A x : Count(s, x) \in Nat
  BY CountNat DEF ScreenOk
<1>4. /\ ScreenShape(w) /\ w.lines = s.lines /\ w.block = s.block
      /\ w.broken = s.broken /\ DOMAIN w.rows = DOMAIN s.rows \ {call}
      /\ ~HasRow(w, call) /\ \A id : id # call => RowOf(w, id) = RowOf(s, id)
      /\ \A x : Count(w, x) = Count(s, x)
  BY <1>1, WithoutRowIs
<1> HIDE DEF w
<1>5. CASE row = 0 \/ row > s.block
  <2>1. q = Printed(w, line)
    BY <1>4, <1>5 DEF Rewritten, NoRow
  <2> HIDE DEF q, line
  <2>2. LET p == Printed(w, line) IN
        /\ ScreenShape(p) /\ p.rows = w.rows /\ (p.broken <=> w.broken \/ DOMAIN w.rows # {})
        /\ \A x : Count(p, x) = Count(w, x) + IF x = line THEN 1 ELSE 0
    BY <1>4, PrintedIs
  <2>3. /\ ScreenShape(q) /\ q.rows = w.rows /\ (q.broken <=> w.broken \/ DOMAIN w.rows # {})
        /\ \A x : Count(q, x) = Count(s, x) + IF x = line THEN 1 ELSE 0
    BY <1>4, <2>1, <2>2
  <2>4. Count(q, NoticeLine) = n
    BY <1>2, <1>3, <2>3
  <2>5. ASSUME ~q.broken PROVE RowsAre(q, W)
    <3>1. ~s.broken /\ DOMAIN s.rows \subseteq {call} /\ DOMAIN q.rows = {} /\ RowsAre(s, V)
      BY <1>4, <2>3, <2>5 DEF ScreenOk
    <3>2. ~HasRow(s, call)
      BY <1>1, <1>5, <3>1 DEF RowsAre, HasRow, NoRow
    <3>3. \A id : ~HasRow(s, id)
      BY <3>1, <3>2 DEF HasRow, RowOf
    <3>4. \A id : Count(q, Line("pending", id)) = 0
      BY <1>2, <2>3, <3>1, <3>3 DEF RowsAre
    <3>5. ASSUME NEW id PROVE Count(q, Line("verdict", id)) = IF id \in W THEN 1 ELSE 0
      <4>1. Count(s, Line("verdict", id)) = IF id \in V THEN 1 ELSE 0
        BY <3>1 DEF RowsAre
      <4>2. Count(q, Line("verdict", id))
            = Count(s, Line("verdict", id)) + IF id = call THEN 1 ELSE 0
        BY <1>2, <2>3
      <4> QED
        BY <4>1, <4>2
    <3> HIDE DEF W
    <3> QED
      BY <3>1, <3>4, <3>5, NoRows
  <2> QED
    BY <2>3, <2>4, <2>5 DEF ScreenOk, q, line, w
<1>6. CASE ~(row = 0 \/ row > s.block)
  <2> DEFINE at == Len(w.lines) - w.block + row
  <2>1. row \in 1 .. w.block
    BY <1>1, <1>4, <1>6
  <2> HIDE DEF line, row
  <2>2. LET p == Rewritten(w, row, line) IN
        /\ ScreenShape(p) /\ p.block = w.block /\ p.rows = w.rows
        /\ p.broken = w.broken /\ Len(p.lines) = Len(w.lines)
        /\ w.lines[at].what \in CallLines
        /\ \A i \in 1 .. Len(w.lines) : i # at => p.lines[i] = w.lines[i]
        /\ \A x : Count(p, x) = (Count(w, x) - IF x = w.lines[at] THEN 1 ELSE 0)
                                + IF x = line THEN 1 ELSE 0
    BY <1>2, <1>4, <2>1, RewrittenIs
  <2> HIDE DEF q, at
  <2>3. /\ ScreenShape(q) /\ q.block = s.block /\ q.rows = w.rows
        /\ q.broken = s.broken /\ Len(q.lines) = Len(s.lines)
        /\ s.lines[at].what \in CallLines
        /\ \A i \in 1 .. Len(s.lines) : i # at => q.lines[i] = s.lines[i]
        /\ \A x : Count(q, x) = (Count(s, x) - IF x = s.lines[at] THEN 1 ELSE 0)
                                + IF x = line THEN 1 ELSE 0
    BY <1>4, <2>2 DEF q
  <2>4. Count(q, NoticeLine) = n
    <3>1. NoticeLine # s.lines[at]
      BY <2>3, LinesApart DEF NoticeLine, CallLines
    <3> QED
      BY <1>2, <1>3, <2>3, <3>1
  <2>5. ASSUME RowsAre(s, V) PROVE RowsAre(q, W)
    <3>1. s.lines[at] = Line("pending", call) /\ HasRow(s, call)
      BY <1>4, <1>6, <2>5 DEF RowsAre, at, row, HasRow, NoRow
    <3>2. ~HasRow(q, call) /\ \A id : id # call => RowOf(q, id) = RowOf(s, id)
      BY <1>4, <2>3 DEF RowOf, HasRow
    <3>3. ASSUME NEW id
          PROVE  /\ Count(q, Line("pending", id)) = IF HasRow(q, id) THEN 1 ELSE 0
                 /\ Count(q, Line("verdict", id)) = IF id \in W THEN 1 ELSE 0
      <4>1. /\ Count(s, Line("pending", id)) = IF HasRow(s, id) THEN 1 ELSE 0
            /\ Count(s, Line("verdict", id)) = IF id \in V THEN 1 ELSE 0
        BY <2>5 DEF RowsAre
      <4>2. /\ Line("pending", id) = s.lines[at] <=> id = call
            /\ Line("verdict", id) # s.lines[at]
        BY <3>1, LinesApart
      <4>3. Count(q, Line("pending", id))
            = Count(s, Line("pending", id)) - IF id = call THEN 1 ELSE 0
        BY <1>2, <1>3, <2>3, <4>2
      <4>4. Count(q, Line("verdict", id))
            = Count(s, Line("verdict", id)) + IF id = call THEN 1 ELSE 0
        BY <1>2, <1>3, <2>3, <4>2
      <4>5. HasRow(q, id) <=> id # call /\ HasRow(s, id)
        BY <3>2 DEF HasRow
      <4>6. Count(q, Line("pending", id)) = IF HasRow(q, id) THEN 1 ELSE 0
        BY <3>1, <4>1, <4>3, <4>5
      <4> QED
        BY <4>1, <4>4, <4>6
    <3>4. ASSUME NEW id, HasRow(q, id)
          PROVE  /\ RowOf(q, id) <= q.block
                 /\ q.lines[(Len(q.lines) - q.block) + RowOf(q, id)] = Line("pending", id)
      <4> DEFINE r == RowOf(s, id)
                 j == (Len(s.lines) - s.block) + r
      <4>1. RowOf(q, id) = r /\ r # 0 /\ r \in Nat /\ HasRow(s, id) /\ id # call
        BY <1>1, <3>2, <3>4 DEF HasRow, NoRow, RowOf, ScreenShape
      <4>2. r <= s.block /\ s.lines[j] = Line("pending", id)
        BY <2>5, <4>1 DEF RowsAre
      <4> HIDE DEF r
      <4>3. j \in 1 .. Len(s.lines)
        BY <1>1, <4>1, <4>2
      <4> HIDE DEF j
      <4>4. j # at
        BY <3>1, <4>1, <4>2, LinesApart
      <4>5. q.lines[j] = Line("pending", id)
        BY <2>3, <4>2, <4>3, <4>4
      <4> QED
        BY <2>3, <4>1, <4>2, <4>5 DEF j
    <3> HIDE DEF W
    <3> QED
      BY <3>3, <3>4 DEF RowsAre
  <2>6. q.broken \/ RowsAre(q, W)
    BY <2>3, <2>5 DEF ScreenOk
  <2> QED
    BY <2>3, <2>4, <2>6 DEF ScreenOk, q, row, line, w
<1> QED
  BY <1>5, <1>6

\* What an event adds to the notices and to the verdicts.
NoticedBy(n, e) == n + IF e.kind = "notice" THEN 1 ELSE 0
FinishedBy(V, e) == IF e.kind = "call_finished" THEN V \union {e.call} ELSE V
Terminal == {"run_finished", "run_failed"}

\* Every event but a terminal one is drawn so; a terminal one blanks the screen.
LEMMA DrawnOk ==
    ASSUME NEW s, NEW n, NEW V, ScreenOk(s, n, V), NEW e,
           e.kind = "call_finished" => e.call \notin V
    PROVE  /\ e.kind \notin Terminal => ScreenOk(Drawn(s, e), NoticedBy(n, e), FinishedBy(V, e))
           /\ e.kind \in Terminal => ScreenOk(Drawn(s, e), 0, {})
<1>0. n \in Nat /\ s.height \in Nat \ {0}
  <2>1. s.height \in Nat /\ s.block \in Nat /\ s.block < s.height
    BY DEF ScreenOk, ScreenShape
  <2>2. n \in Nat
    BY CountNat DEF ScreenOk
  <2> QED
    BY <2>1, <2>2
<1>1. CASE e.kind = "text"
  BY <1>0, <1>1, TextDrawn DEF Drawn, NoticedBy, FinishedBy, Terminal
<1>2. CASE e.kind = "args"
  <2>1. CASE e.value.named /\ e.call \notin DOMAIN s.rows
    <3>1. Drawn(s, e) = Opened(s, e.call)
      BY <1>2, <2>1 DEF Drawn
    <3>2. ~HasRow(s, e.call)
      BY <2>1 DEF HasRow, RowOf
    <3> QED
      BY <1>0, <1>2, <3>1, <3>2, CallOpened DEF NoticedBy, FinishedBy, Terminal
  <2>2. CASE ~(e.value.named /\ e.call \notin DOMAIN s.rows)
    <3>1. Drawn(s, e) = s
      BY <1>2, <2>2 DEF Drawn
    <3> QED
      BY <1>0, <1>2, <3>1 DEF NoticedBy, FinishedBy, Terminal
  <2> QED
    BY <2>1, <2>2
<1>3. CASE e.kind = "call_started"
  <2>1. Drawn(s, e) = IF ~HasRow(s, e.call) THEN Opened(s, e.call)
                      ELSE Rewritten(s, RowOf(s, e.call), Line("pending", e.call))
    BY <1>3 DEF Drawn, HasRow
  <2>2. ScreenOk(Drawn(s, e), n, V)
    BY <2>1, CallOpened, PendingDrawn
  <2> QED
    BY <1>0, <1>3, <2>2 DEF NoticedBy, FinishedBy, Terminal
<1>4. CASE e.kind = "call_finished"
  <2>1. Drawn(s, e) = Rewritten(WithoutRow(s, e.call), RowOf(s, e.call), Line("verdict", e.call))
    BY <1>4 DEF Drawn
  <2>2. ScreenOk(Drawn(s, e), n, V \union {e.call})
    BY <1>4, <2>1, VerdictDrawn
  <2> QED
    BY <1>0, <1>4, <2>2 DEF NoticedBy, FinishedBy, Terminal
<1>5. CASE e.kind = "notice"
  <2>1. Drawn(s, e) = Printed(s, NoticeLine)
    BY <1>5 DEF Drawn, NoticeLine
  <2> QED
    BY <1>5, <2>1, NoticeDrawn DEF NoticedBy, FinishedBy, Terminal
<1>6. CASE e.kind \in Terminal
  <2>1. Drawn(s, e) = Blank(s.height)
    BY <1>6 DEF Drawn, Terminal
  <2> QED
    BY <1>0, <1>6, <2>1, BlankOk
<1>7. CASE e.kind \notin {"text", "args", "call_started", "call_finished", "notice"} \union Terminal
  <2>1. Drawn(s, e) = s
    BY <1>7 DEF Drawn, Terminal
  <2> QED
    BY <1>0, <1>7, <2>1 DEF NoticedBy, FinishedBy
<1> QED
  BY <1>1, <1>2, <1>3, <1>4, <1>5, <1>6, <1>7

-----------------------------------------------------------------------------
(* What is switched off                                                    *)

\* The models' operators are those the laws of lists are about.
LEMMA PicksAre ==
    /\ \A S : IsFiniteSet(S) <=> Run!IsFiniteSet(S)
    /\ \A S : Cardinality(S) = Run!Cardinality(S)
    /\ \A S : Ascending(S) = Run!Ascending(S)
<1>1. \A S : IsFiniteSet(S) <=> Run!IsFiniteSet(S)
  BY DEF IsFiniteSet, Run!IsFiniteSet
<1>2. \A S : Cardinality(S) = Run!Cardinality(S)
  BY DEF Cardinality, Run!Cardinality
<1>3. ASSUME NEW S PROVE Ascending(S) = Run!Ascending(S)
  <2> DEFINE Nth(n) == CHOOSE x \in S : Cardinality({y \in S : y <= x}) = n
             Other(n) == CHOOSE x \in S : Run!Cardinality({y \in S : y <= x}) = n
  <2>1. ASSUME NEW n PROVE Nth(n) = Other(n)
    <3>1. \A x \in S : Cardinality({y \in S : y <= x}) = n
                      <=> Run!Cardinality({y \in S : y <= x}) = n
      BY <1>2
    <3> QED
      BY <3>1
  <2>2. /\ Ascending(S) = [n \in 1 .. Cardinality(S) |-> Nth(n)]
        /\ Run!Ascending(S) = [n \in 1 .. Cardinality(S) |-> Other(n)]
    BY <1>2 DEF Ascending, Run!Ascending
  <2> HIDE DEF Nth, Other
  <2> QED
    BY <2>1, <2>2
<1> QED
  BY <1>1, <1>2, <1>3

\* What is picked at positions of a list is a list, and has each of them.
LEMMA PickedAll ==
    ASSUME NEW list, NEW n, IsList(list, n), NEW P \in SUBSET (1 .. n)
    PROVE  /\ IsList(ItemsAt(list, P), Cardinality(P))
           /\ \A i \in P : \E m \in DOMAIN ItemsAt(list, P) : ItemsAt(list, P)[m] = list[i]
<1>1. n \in Nat /\ IsFiniteSet(1 .. n) /\ P \in SUBSET Nat
  BY FS_Interval DEF IsList
<1>2. IsFiniteSet(P) /\ Cardinality(P) \in Nat
  BY <1>1, FS_Subset, FS_CardinalityType
<1>3. \A x \in P : \E m \in 1 .. Cardinality(P) : Ascending(P)[m] = x
  BY <1>1, <1>2, PicksAre, Run!AscendingLists
<1> QED
  BY <1>2, <1>3 DEF IsList, ItemsAt

\* Only what is registered is switched off.
DisabledOk(r) == IsList(r.tools, Len(r.tools)) /\ r.disabled \subseteq NamesOf(r.tools)

LEMMA DisabledFields ==
    ASSUME NEW r, NEW n, IsList(r.tools, n), r.disabled \subseteq NamesOf(r.tools)
    PROVE  DisabledOk(r)
BY ListAppend DEF DisabledOk

LEMMA RegisterOk ==
    ASSUME NEW r, IsRegistry(r), DisabledOk(r), NEW tool
    PROVE  DisabledOk(Register(r, tool))
<1> DEFINE tools == IF Registered(r, tool.name)
                    THEN [i \in DOMAIN r.tools |-> IF r.tools[i].name = tool.name THEN tool
                                                   ELSE r.tools[i]]
                    ELSE Append(r.tools, tool)
           disabled == r.disabled \ {tool.name}
           q == Register(r, tool)
           n == Len(r.tools)
<1>1. q = [r EXCEPT !.tools = tools, !.disabled = disabled, !.cache = None]
  BY DEF Register, IsRegistry
<1>2. IsList(r.tools, n) /\ DOMAIN r.tools = 1 .. n /\ n \in Nat
  BY DEF DisabledOk, IsList
<1>3. \E m : IsList(tools, m)
  <2>1. CASE Registered(r, tool.name)
    <3> HIDE DEF n
    <3>1. IsList(tools, n)
      BY <1>2, <2>1 DEF IsList
    <3> QED
      BY <3>1
  <2>2. CASE ~Registered(r, tool.name)
    BY <1>2, <2>2, ListAppend
  <2> QED
    BY <2>1, <2>2
<1>4. disabled \subseteq NamesOf(tools)
  <2>1. CASE Registered(r, tool.name)
    <3>1. DOMAIN tools = DOMAIN r.tools /\ \A i \in DOMAIN r.tools : tools[i].name = r.tools[i].name
      BY <2>1
    <3> HIDE DEF tools
    <3> QED
      BY <3>1 DEF NamesOf, DisabledOk
  <2>2. CASE ~Registered(r, tool.name)
    <3>1. /\ DOMAIN tools = 1 .. n + 1 /\ \A i \in 1 .. n : tools[i] = r.tools[i] /\ i \in 1 .. n + 1
      BY <1>2, <2>2, ListAppend
    <3> HIDE DEF tools, n
    <3> QED
      BY <1>2, <3>1 DEF NamesOf, DisabledOk
  <2> QED
    BY <2>1, <2>2
<1> HIDE DEF tools, disabled, q
<1>5. q.tools = tools /\ q.disabled = disabled
  BY <1>1 DEF IsRegistry
<1> QED
  BY <1>3, <1>4, <1>5, DisabledFields DEF q

LEMMA UnregisterOk ==
    ASSUME NEW r, IsRegistry(r), DisabledOk(r), NEW name
    PROVE  DisabledOk(Unregister(r, name))
<1> DEFINE P == {i \in DOMAIN r.tools : r.tools[i].name # name}
           tools == ItemsAt(r.tools, P)
           disabled == r.disabled \ {name}
           q == Unregister(r, name)
           n == Len(r.tools)
<1>1. IsList(r.tools, n) /\ DOMAIN r.tools = 1 .. n
  BY DEF DisabledOk, IsList
<1>2. CASE Registered(r, name)
  <2>1. q = [r EXCEPT !.tools = tools, !.disabled = disabled, !.cache = None]
    BY <1>2 DEF Unregister, IsRegistry
  <2>2. P \in SUBSET (1 .. n)
    BY <1>1
  <2>3. ASSUME NEW other \in disabled PROVE \E i \in P : r.tools[i].name = other
    BY DEF DisabledOk, NamesOf
  <2> HIDE DEF P, n
  <2>4. /\ IsList(tools, Cardinality(P))
        /\ \A i \in P : \E m \in DOMAIN tools : tools[m] = r.tools[i]
    BY <1>1, <2>2, PickedAll
  <2> HIDE DEF tools, disabled, q
  <2>5. disabled \subseteq NamesOf(tools)
    BY <2>3, <2>4 DEF NamesOf
  <2>6. q.tools = tools /\ q.disabled = disabled
    BY <2>1 DEF IsRegistry
  <2> QED
    BY <2>4, <2>5, <2>6, DisabledFields DEF q
<1>3. CASE ~Registered(r, name)
  <2>1. q = [r EXCEPT !.disabled = disabled]
    BY <1>3 DEF Unregister
  <2>2. q.tools = r.tools /\ q.disabled \subseteq r.disabled
    BY <2>1 DEF IsRegistry
  <2> QED
    BY <1>1, <2>2, DisabledFields DEF DisabledOk
<1> QED
  BY <1>2, <1>3

\* Switching a tool on, off, freezing and asking leave the tools there are.
LEMMA OthersOk ==
    ASSUME NEW r, IsRegistry(r), DisabledOk(r), NEW name
    PROVE  /\ DisabledOk(Enable(r, name)) /\ DisabledOk(Disable(r, name))
           /\ DisabledOk(Freeze(r)) /\ DisabledOk(Asked(r))
<1>1. IsList(r.tools, Len(r.tools)) /\ r.disabled \subseteq NamesOf(r.tools)
  BY DEF DisabledOk
<1>2. DisabledOk(Enable(r, name))
  <2>1. Enable(r, name).tools = r.tools /\ Enable(r, name).disabled \subseteq r.disabled
    BY DEF Enable, IsRegistry
  <2> QED
    BY <1>1, <2>1, DisabledFields
<1>3. DisabledOk(Disable(r, name))
  <2> DEFINE q == Disable(r, name)
             disabled == r.disabled \union {name}
  <2>1. CASE Registered(r, name)
    <3>1. q = [r EXCEPT !.disabled = disabled, !.cache = None]
      BY <2>1 DEF Disable, IsRegistry
    <3>2. disabled \subseteq NamesOf(r.tools)
      BY <1>1, <2>1 DEF Registered
    <3> HIDE DEF q, disabled
    <3>3. q.tools = r.tools /\ q.disabled = disabled
      BY <3>1 DEF IsRegistry
    <3> QED
      BY <1>1, <3>2, <3>3, DisabledFields DEF q
  <2>2. CASE ~Registered(r, name)
    BY <2>2 DEF Disable
  <2> QED
    BY <2>1, <2>2
<1>4. DisabledOk(Freeze(r))
  <2> DEFINE live == {LiveSchemas(r, "model")}
             q == Freeze(r)
  <2>1. q = [r EXCEPT !.frozen = live]
    BY DEF Freeze
  <2> HIDE DEF live, q
  <2>2. q.tools = r.tools /\ q.disabled = r.disabled
    BY <2>1 DEF IsRegistry
  <2> QED
    BY <1>1, <2>2, DisabledFields DEF q
<1>5. DisabledOk(Asked(r))
  <2> DEFINE offered == {AllSchemas(r)}
             q == Asked(r)
  <2>1. q = [r EXCEPT !.cache = offered] \/ q = r
    BY DEF Asked
  <2> HIDE DEF offered, q
  <2>2. q.tools = r.tools /\ q.disabled = r.disabled
    BY <2>1 DEF IsRegistry
  <2> QED
    BY <1>1, <2>2, DisabledFields DEF q
<1> QED
  BY <1>2, <1>3, <1>4, <1>5

LEMMA DisabledInit ==
    ASSUME Init PROVE DisabledOk(registry)
<1>1. PICK built \in Built(Tools) : registry \in {built, Freeze(built)}
  BY DEF Init
<1>2. PICK some \in SUBSET Tools : built = [EmptyRegistry EXCEPT !.tools = SetToSeq(some)]
  BY <1>1 DEF Built
<1> DEFINE list == SetToSeq(some)
<1>3. IsFiniteSet(some) /\ Cardinality(some) \in Nat
  BY FS_Subset, FS_CardinalityType, ToolCallsAssumption
<1>4. list \in [1 .. Cardinality(some) -> some]
  <2>1. PICK f : f \in Bijection(1 .. Cardinality(some), some)
    BY <1>3, FS_CardinalityType DEF ExistsBijection
  <2>2. f \in [1 .. Cardinality(some) -> some] /\ IsInjective(f)
    BY <2>1 DEF Bijection, Injection
  <2> QED
    BY <2>2 DEF SetToSeq
<1> HIDE DEF list
<1>5. built = [tools |-> list, disabled |-> {}, cache |-> None, frozen |-> None]
  BY <1>2 DEF EmptyRegistry, list
<1>6. IsList(list, Cardinality(some))
  BY <1>3, <1>4 DEF IsList
<1>7. IsRegistry(built) /\ DisabledOk(built)
  BY <1>5, <1>6, DisabledFields DEF IsRegistry
<1> QED
  BY <1>1, <1>7, OthersOk

LEMMA DisabledNext ==
    ASSUME RegistryOk, DisabledOk(registry), [Next]_vars
    PROVE  DisabledOk(registry')
<1>0. IsRegistry(registry)
  BY DEF RegistryOk
<1>1. CASE Switch
  <2>1. CASE \E tool \in Tools : registry' = Disable(registry, tool.name)
    BY <1>0, <2>1, OthersOk
  <2>2. CASE \E tool \in Tools : registry' = Enable(registry, tool.name)
    BY <1>0, <2>2, OthersOk
  <2>3. CASE \E tool \in Tools : registry' = Unregister(registry, tool.name)
    BY <1>0, <2>3, UnregisterOk
  <2>4. CASE \E new : registry' = Register(registry, new)
    BY <1>0, <2>4, RegisterOk
  <2>5. CASE registry' = Freeze(registry)
    BY <1>0, <2>5, OthersOk
  <2> QED
    BY <1>1, <2>1, <2>2, <2>3, <2>4, <2>5 DEF Switch
<1>2. CASE TurnBegins
  BY <1>0, <1>2, OthersOk DEF TurnBegins
<1>3. CASE registry' = registry
  BY <1>3
<1>4. CASE Says \/ Notices \/ CallForms \/ ResponseEnds \/ Replies \/ CancelTurn \/ Fails
  BY <1>3, <1>4 DEF Says, Notices, CallForms, ResponseEnds, Replies, CancelTurn, Fails
<1>5. CASE \E k \in DOMAIN calls : CallStep(k)
  BY <1>3, <1>5
     DEF CallStep, Announce, Outputs, ToolEnds, Completes, CallsNested, ProgramCalls
<1>6. CASE \E tool \in Tools : CallsAlone(tool.name)
  BY <1>3, <1>6 DEF CallsAlone, ProgramCalls
<1>7. CASE UNCHANGED vars
  BY <1>3, <1>7 DEF vars
<1> QED
  BY <1>1, <1>2, <1>4, <1>5, <1>6, <1>7 DEF Next

-----------------------------------------------------------------------------
(* What is drawn of what is published                                      *)

Draw == INSTANCE ListFacts WITH Step <- Drawn

\* The models' FoldLeft is the one the laws are about.
AllDrawn(s, events) == FoldLeft(Drawn, s, events)
LEMMA DrawFolds == \A s, events : AllDrawn(s, events) = Draw!FoldLeft(Drawn, s, events)
BY DEF AllDrawn, FoldLeft, Draw!FoldLeft, MapThenFoldSet, Draw!MapThenFoldSet, Max, Draw!Max

\* One event drawn, two and three.
LEMMA DrawsList ==
    ASSUME NEW s, NEW of
    PROVE  /\ DOMAIN of = 1 .. 2 => AllDrawn(s, of) = Drawn(Drawn(s, of[1]), of[2])
           /\ DOMAIN of = 1 .. 3 => AllDrawn(s, of) = Drawn(Drawn(Drawn(s, of[1]), of[2]), of[3])
BY DrawFolds, Draw!FoldTwo, Draw!FoldThree
LEMMA DrawsOne ==
    ASSUME NEW s, NEW e
    PROVE  AllDrawn(s, <<e>>) = Drawn(s, e)
BY DrawFolds, Draw!FoldOne

\* What publishing makes of the screen.
SameEvent(d, e) == d.kind = e.kind /\ d.call = e.call /\ d.value = e.value
DrawnAs(events, of, n) ==
    /\ IsList(of, n) /\ \A i \in 1 .. n : SameEvent(of[i], events[i])
    /\ screen' = AllDrawn(screen, of)
    /\ printed' = IF \E i \in 1 .. n : of[i].kind \in Terminal THEN [notices |-> 0, verdicts |-> {}]
                  ELSE [notices |-> printed.notices + Cardinality({i \in 1 .. n : of[i].kind = "notice"}),
                        verdicts |-> printed.verdicts \union
                            {of[i].call : i \in {j \in 1 .. n : of[j].kind = "call_finished"}}]
LEMMA PublishDraws ==
    ASSUME NEW events, NEW n, IsList(events, n), \A i \in 1 .. n : IsEvent(events[i]),
           NEW no, NEW folds, PublishesAs(no, events, folds)
    PROVE  \E of : DrawnAs(events, of, n)
<1> DEFINE of == [i \in DOMAIN events |-> [events[i] EXCEPT !.run = no]]
<1>1. DOMAIN events = 1 .. n /\ n \in Nat
  BY DEF IsList
<1>2. ASSUME NEW i \in 1 .. n PROVE SameEvent(of[i], events[i])
  BY <1>1 DEF IsEvent, SameEvent
<1>3. IsList(of, n)
  BY <1>1 DEF IsList
<1>4. /\ screen' = FoldLeft(Drawn, screen, of)
      /\ printed' = IF \E i \in DOMAIN of : of[i].kind \in {"run_finished", "run_failed"}
                    THEN [notices |-> 0, verdicts |-> {}]
                    ELSE [notices |-> printed.notices
                                      + Cardinality({i \in DOMAIN of : of[i].kind = "notice"}),
                          verdicts |-> printed.verdicts \union
                              {of[i].call : i \in {j \in DOMAIN of : of[j].kind = "call_finished"}}]
  BY DEF PublishesAs
<1>5. DOMAIN of = 1 .. n
  BY <1>1
<1> HIDE DEF of
<1>6. DrawnAs(events, of, n)
  BY <1>2, <1>3, <1>4, <1>5 DEF DrawnAs, AllDrawn, Terminal
<1> QED
  BY <1>6

\* The screen has the notices and the verdicts that were published.
ScreenInv == ScreenOk(screen, printed.notices, printed.verdicts)

\* One event published.
LEMMA OneDrawn ==
    ASSUME ScreenInv, NEW e, IsEvent(e), e.kind = "call_finished" => e.call \notin printed.verdicts,
           NEW no, NEW folds, PublishesAs(no, <<e>>, folds)
    PROVE  /\ ScreenInv'
           /\ printed'.verdicts = IF e.kind \in Terminal THEN {} ELSE FinishedBy(printed.verdicts, e)
<1> DEFINE events == <<e>>
           n == 1
<1>1. IsList(events, n) /\ events[1] = e /\ \A i \in 1 .. n : i = 1
  BY DEF IsList
<1>2. PublishesAs(no, events, folds)
  OBVIOUS
<1> HIDE DEF events, n
<1>3. PICK of : DrawnAs(events, of, n)
  BY <1>1, <1>2, PublishDraws
<1> DEFINE d == of[1]
<1>4. /\ d.kind = e.kind /\ d.call = e.call /\ d.value = e.value
      /\ of = <<d>>
  BY <1>1, <1>3 DEF DrawnAs, SameEvent, IsList, n
<1>5. 1 .. n = {1}
  BY DEF n
<1>6. screen' = Drawn(screen, d)
  BY <1>3, <1>4, DrawsOne DEF DrawnAs
<1> HIDE DEF d
<1>7. printed' = IF d.kind \in Terminal THEN [notices |-> 0, verdicts |-> {}]
                 ELSE [notices |-> printed.notices + Cardinality({i \in {1} : d.kind = "notice"}),
                       verdicts |-> printed.verdicts \union
                            {d.call : i \in {j \in {1} : d.kind = "call_finished"}}]
  <2>1. of[1] = d
    BY DEF d
  <2>2. \A i \in {1} : of[i] = d
    BY <2>1
  <2>3. /\ (\E i \in {1} : of[i].kind \in Terminal) <=> d.kind \in Terminal
        /\ {i \in {1} : of[i].kind = "notice"} = {i \in {1} : d.kind = "notice"}
        /\ {of[i].call : i \in {j \in {1} : of[j].kind = "call_finished"}}
           = {d.call : i \in {j \in {1} : d.kind = "call_finished"}}
    BY <2>2
  <2> QED
    BY <1>3, <1>5, <2>3 DEF DrawnAs
<1>8. CASE d.kind \in Terminal
  <2>1. printed'.notices = 0 /\ printed'.verdicts = {}
    BY <1>7, <1>8
  <2>2. ScreenOk(Drawn(screen, d), 0, {})
    BY <1>4, <1>8, DrawnOk DEF ScreenInv
  <2> QED
    BY <1>4, <1>6, <1>8, <2>1, <2>2 DEF ScreenInv
<1>9. CASE d.kind \notin Terminal
  <2>1. Cardinality({i \in {1} : d.kind = "notice"}) = IF d.kind = "notice" THEN 1 ELSE 0
    <3>1. {i \in {1} : d.kind = "notice"} = IF d.kind = "notice" THEN {1} ELSE {}
      OBVIOUS
    <3>2. Cardinality({1}) = 1 /\ Cardinality({}) = 0
      BY FS_Singleton, FS_EmptySet
    <3> QED
      BY <3>1, <3>2
  <2>2. {d.call : i \in {j \in {1} : d.kind = "call_finished"}}
        = IF d.kind = "call_finished" THEN {d.call} ELSE {}
    OBVIOUS
  <2>3. /\ printed'.notices = NoticedBy(printed.notices, d)
        /\ printed'.verdicts = FinishedBy(printed.verdicts, d)
    BY <1>7, <1>9, <2>1, <2>2 DEF NoticedBy, FinishedBy
  <2>4. ScreenOk(Drawn(screen, d), NoticedBy(printed.notices, d), FinishedBy(printed.verdicts, d))
    BY <1>4, <1>9, DrawnOk DEF ScreenInv
  <2>5. FinishedBy(printed.verdicts, d) = FinishedBy(printed.verdicts, e)
    BY <1>4 DEF FinishedBy
  <2> QED
    BY <1>4, <1>6, <1>9, <2>3, <2>4, <2>5 DEF ScreenInv
<1> QED
  BY <1>8, <1>9

\* Events that draw nothing, of which the last may end the run.
Unseen == {"run_started", "iteration_started", "iteration_finished"}
LEMMA UnseenDrawn ==
    ASSUME NEW s, NEW e, e.kind \in Unseen PROVE Drawn(s, e) = s
BY DEF Drawn, Unseen

LEMMA ListDrawn ==
    ASSUME ScreenInv, NEW n \in {2, 3}, NEW events, IsList(events, n),
           \A i \in 1 .. n : IsEvent(events[i]),
           \A i \in 1 .. n : i # n => events[i].kind \in Unseen,
           events[n].kind \in Unseen \union Terminal,
           NEW no, NEW folds, PublishesAs(no, events, folds)
    PROVE  /\ ScreenInv'
           /\ printed'.verdicts = IF events[n].kind \in Terminal THEN {} ELSE printed.verdicts
<1>1. PICK of : DrawnAs(events, of, n)
  BY PublishDraws
<1>2. \A i \in 1 .. n : of[i].kind = events[i].kind /\ of[i].call = events[i].call
  BY <1>1 DEF DrawnAs, SameEvent
<1>3. DOMAIN of = 1 .. n /\ screen' = AllDrawn(screen, of)
  BY <1>1 DEF DrawnAs, IsList
<1> DEFINE last == of[n]
<1>4. last.kind = events[n].kind
  BY <1>2
<1>5. screen' = Drawn(screen, last)
  <2>1. CASE n = 2
    <3>1. Drawn(screen, of[1]) = screen
      BY <1>2, <2>1, UnseenDrawn
    <3> QED
      BY <1>3, <2>1, <3>1, DrawsList
  <2>2. CASE n = 3
    <3>1. Drawn(screen, of[1]) = screen /\ Drawn(screen, of[2]) = screen
      BY <1>2, <2>2, UnseenDrawn
    <3> QED
      BY <1>3, <2>2, <3>1, DrawsList
  <2> QED
    BY <2>1, <2>2
<1> HIDE DEF last
<1>6. CASE last.kind \in Terminal
  <2>1. \E i \in 1 .. n : of[i].kind \in Terminal
    BY <1>6 DEF last
  <2>2. printed' = [notices |-> 0, verdicts |-> {}]
    BY <1>1, <2>1 DEF DrawnAs
  <2>3. ScreenOk(Drawn(screen, last), 0, {})
    BY <1>6, DrawnOk DEF ScreenInv, Terminal
  <2> QED
    BY <1>4, <1>5, <1>6, <2>2, <2>3 DEF ScreenInv
<1>7. CASE last.kind \in Unseen
  <2>1. last.kind \notin Terminal /\ screen' = screen
    BY <1>5, <1>7, UnseenDrawn DEF Unseen, Terminal
  <2>2. \A i \in 1 .. n : of[i].kind \in Unseen
    BY <1>2, <1>7 DEF last
  <2>3. /\ ~\E i \in 1 .. n : of[i].kind \in Terminal
        /\ {i \in 1 .. n : of[i].kind = "notice"} = {}
        /\ {j \in 1 .. n : of[j].kind = "call_finished"} = {}
    BY <2>2 DEF Unseen, Terminal
  <2>4. printed.notices \in Nat /\ Cardinality({}) = 0
    BY CountNat, FS_EmptySet DEF ScreenInv, ScreenOk
  <2>5. printed' = [notices |-> printed.notices, verdicts |-> printed.verdicts]
    <3> DEFINE N == {i \in 1 .. n : of[i].kind = "notice"}
               F == {j \in 1 .. n : of[j].kind = "call_finished"}
               V == {of[i].call : i \in F}
    <3>1. N = {} /\ F = {} /\ V = {}
      BY <2>3
    <3>2. printed' = [notices |-> printed.notices + Cardinality(N), verdicts |-> printed.verdicts \union V]
      BY <1>1, <2>3 DEF DrawnAs
    <3> HIDE DEF N, F, V
    <3>3. printed.notices + Cardinality(N) = printed.notices /\ printed.verdicts \union V = printed.verdicts
      BY <2>4, <3>1
    <3> QED
      BY <3>2, <3>3
  <2> QED
    BY <1>4, <2>1, <2>5 DEF ScreenInv
<1> QED
  BY <1>4, <1>6, <1>7

-----------------------------------------------------------------------------
(* What is on the screen is true                                           *)

\* A verdict that the screen has is of a call that is over: a program's, or the
\* model's of the turn under way.
VerdictsOver ==
    \A id \in printed.verdicts : \E k \in DOMAIN calls :
        /\ calls[k].id = id /\ calls[k].phase = "over"
        /\ OfModel(k) => calls[k].turn = turn.no /\ turn.phase # "over"

\* The inductive invariant of the screen, beside those of the calls.
DrawnInv == ScreenInv /\ VerdictsOver

\* A blank screen is true.
LEMMA DrawnInit ==
    ASSUME Init PROVE DrawnInv
<1>1. /\ printed.notices = 0 /\ printed.verdicts = {}
      /\ \E height \in Nat \ {0} : screen = Blank(height)
  BY ScreenAssumption DEF Init
<1>2. ScreenInv
  BY <1>1, BlankOk DEF ScreenInv
<1> QED
  BY <1>1, <1>2 DEF DrawnInv, VerdictsOver

\* No call is given a verdict twice.
LEMMA VerdictFresh ==
    ASSUME IdInv, AnswerInv, VerdictsOver, NEW k \in DOMAIN calls, calls[k].phase = "completing"
    PROVE  calls[k].id \notin printed.verdicts
<1> SUFFICES ASSUME calls[k].id \in printed.verdicts PROVE FALSE
  OBVIOUS
<1>1. PICK j \in DOMAIN calls :
          /\ calls[j].id = calls[k].id /\ calls[j].phase = "over"
          /\ OfModel(j) => calls[j].turn = turn.no /\ turn.phase # "over"
  BY DEF VerdictsOver
<1>2. j # k
  BY <1>1
<1>3. CASE OfModel(k)
  <2>1. calls[k].turn = turn.no
    BY <1>3, AtWork
  <2> QED
    BY <1>1, <1>2, <2>1, IdsDiffer
<1>4. CASE ~OfModel(k) /\ ~OfModel(j)
  BY <1>1, <1>2, <1>4 DEF AnswerInv, ProgramsApart
<1>5. CASE ~OfModel(k) /\ OfModel(j)
  BY <1>1, <1>5, OriginsApart
<1> QED
  BY <1>3, <1>4, <1>5

\* The calls that are over stay so, and the turn under way goes on.
OverStay ==
    \A k \in DOMAIN calls : calls[k].phase = "over" =>
        /\ k \in DOMAIN calls' /\ calls'[k].phase = "over"
        /\ calls'[k].id = calls[k].id /\ calls'[k].origin = calls[k].origin
        /\ calls'[k].turn = calls[k].turn
TurnStays == turn.phase # "over" => turn'.no = turn.no /\ turn'.phase # "over"
LEMMA VerdictsStay ==
    ASSUME VerdictsOver, OverStay, TurnStays, printed'.verdicts = printed.verdicts
    PROVE  VerdictsOver'
<1> SUFFICES ASSUME NEW id \in printed.verdicts
             PROVE  \E k \in DOMAIN calls' :
                        /\ calls'[k].id = id /\ calls'[k].phase = "over"
                        /\ OfModel(k)' => calls'[k].turn = turn'.no /\ turn'.phase # "over"
  BY DEF VerdictsOver
<1>1. PICK k \in DOMAIN calls :
          /\ calls[k].id = id /\ calls[k].phase = "over"
          /\ OfModel(k) => calls[k].turn = turn.no /\ turn.phase # "over"
  BY DEF VerdictsOver
<1> QED
  BY <1>1 DEF OverStay, TurnStays, OfModel

\* A step that draws nothing.
LEMMA QuietDraws ==
    ASSUME DrawnInv, UNCHANGED channel, OverStay, TurnStays PROVE DrawnInv'
<1>1. screen' = screen /\ printed' = printed
  BY DEF channel
<1>2. ScreenInv'
  BY <1>1 DEF DrawnInv, ScreenInv
<1> QED
  BY <1>1, <1>2, VerdictsStay DEF DrawnInv

\* A step that draws one event, which is no verdict.
LEMMA OneDraws ==
    ASSUME DrawnInv, NEW e, IsEvent(e), e.kind # "call_finished",
           NEW folds, PublishesAs(turn.no, <<e>>, folds),
           e.kind \notin Terminal => OverStay /\ TurnStays
    PROVE  DrawnInv'
<1>1. /\ ScreenInv'
      /\ printed'.verdicts = IF e.kind \in Terminal THEN {} ELSE printed.verdicts
  BY OneDrawn DEF DrawnInv, FinishedBy
<1>2. CASE e.kind \in Terminal
  BY <1>1, <1>2 DEF DrawnInv, VerdictsOver
<1>3. CASE e.kind \notin Terminal
  BY <1>1, <1>3, VerdictsStay DEF DrawnInv
<1> QED
  BY <1>2, <1>3

\* The calls that a step leaves alone.
LEMMA AppendStays ==
    ASSUME IdInv, NEW new, calls' = Append(calls, new) PROVE OverStay
BY MoreIds DEF OverStay
LEMMA SameStays ==
    ASSUME UNCHANGED calls PROVE OverStay
BY DEF OverStay
LEMMA OtherStays ==
    ASSUME NEW k, calls[k].phase # "over", DOMAIN calls' = DOMAIN calls,
           \A j \in DOMAIN calls : j # k => calls'[j] = calls[j]
    PROVE  OverStay
BY DEF OverStay

-----------------------------------------------------------------------------
(* The steps and the screen                                                *)

\* What a turn publishes as it begins draws nothing; a verdict of a turn before
\* is a program's.
LEMMA BeginsDraws ==
    ASSUME DrawnInv, TurnBegins PROVE DrawnInv'
<1> DEFINE a == Event("run_started", NoCall, 0)
           b == Event("iteration_started", NoCall, 1)
           events == <<a, b>>
           n == 2
           no == turn.no + 1
<1>1. turn.phase = "over" /\ UNCHANGED calls /\ PublishesAs(no, events, TRUE)
  BY DEF TurnBegins
<1>2. /\ IsEvent(a) /\ IsEvent(b) /\ a.kind \in Unseen /\ b.kind \in Unseen
      /\ b.kind \notin Terminal
  BY DEF Event, IsEvent, Unseen, Terminal
<1> HIDE DEF a, b
<1>3. IsList(events, n) /\ events[1] = a /\ events[2] = b /\ \A i \in 1 .. n : i = 1 \/ i = 2
  BY DEF IsList
<1> HIDE DEF events, no
<1>4. /\ n \in {2, 3} /\ events[n] = b
      /\ \A i \in 1 .. n : i # n => i = 1
  BY <1>3
<1> HIDE DEF n
<1>5. /\ \A i \in 1 .. n : IsEvent(events[i])
      /\ \A i \in 1 .. n : i # n => events[i].kind \in Unseen
      /\ events[n].kind \in Unseen \union Terminal /\ events[n].kind \notin Terminal
  BY <1>2, <1>3, <1>4
<1>6. ScreenInv' /\ printed'.verdicts = printed.verdicts
  BY <1>1, <1>3, <1>4, <1>5, ListDrawn DEF DrawnInv
<1>7. OverStay /\ TurnStays
  BY <1>1 DEF OverStay, TurnStays
<1> QED
  BY <1>6, <1>7, VerdictsStay DEF DrawnInv

\* The reply, a cancellation and a failure start a new screen.
LEMMA RepliesDraws ==
    ASSUME DrawnInv, Replies PROVE DrawnInv'
<1> DEFINE iteration == IF turn.phase = "batch" THEN 2 ELSE 1
           c == Event("iteration_started", NoCall, 2)
           a == Event("iteration_finished", NoCall, 1)
           b == Ending(1, FALSE, iteration)
           first == IF iteration = 1 THEN <<>> ELSE <<c>>
           events == first \o <<a, b>>
<1>1. PublishesAs(turn.no, events, TRUE)
  BY DEF Replies, Publishes
<1>2. events = <<a, b>> \/ events = <<c, a, b>>
  <2> HIDE DEF a, b, c
  <2>1. <<>> \o <<a, b>> = <<a, b>> /\ <<c>> \o <<a, b>> = <<c, a, b>>
    BY OneBeforeTwo
  <2>2. events = <<>> \o <<a, b>> \/ events = <<c>> \o <<a, b>>
    OBVIOUS
  <2> QED
    BY <2>1, <2>2
<1>3. /\ IsEvent(a) /\ IsEvent(b) /\ IsEvent(c)
      /\ a.kind \in Unseen /\ c.kind \in Unseen /\ b.kind \in Terminal
  BY DEF Event, IsEvent, Ending, Unseen, Terminal
<1> HIDE DEF a, b, c, events
<1>4. PICK n \in {2, 3} :
          /\ IsList(events, n) /\ events[n] = b
          /\ \A i \in 1 .. n : events[i] \in {a, b, c} /\ (i # n => events[i] \in {a, c})
  <2>1. CASE events = <<a, b>>
    <3> DEFINE n == 2
    <3>1. /\ IsList(events, n) /\ events[n] = b
          /\ \A i \in 1 .. n : events[i] \in {a, b, c} /\ (i # n => events[i] \in {a, c})
      BY <2>1 DEF IsList
    <3>2. n \in {2, 3}
      OBVIOUS
    <3> HIDE DEF n
    <3> QED
      BY <3>1, <3>2
  <2>2. CASE events = <<c, a, b>>
    <3> DEFINE n == 3
    <3>1. /\ IsList(events, n) /\ events[n] = b
          /\ \A i \in 1 .. n : events[i] \in {a, b, c} /\ (i # n => events[i] \in {a, c})
      BY <2>2 DEF IsList
    <3>2. n \in {2, 3}
      OBVIOUS
    <3> HIDE DEF n
    <3> QED
      BY <3>1, <3>2
  <2> QED
    BY <1>2, <2>1, <2>2
<1>5. /\ \A i \in 1 .. n : IsEvent(events[i])
      /\ \A i \in 1 .. n : i # n => events[i].kind \in Unseen
      /\ events[n].kind \in Unseen \union Terminal /\ events[n].kind \in Terminal
  BY <1>3, <1>4
<1>6. ScreenInv' /\ printed'.verdicts = {}
  BY <1>1, <1>4, <1>5, ListDrawn DEF DrawnInv
<1> QED
  BY <1>6 DEF DrawnInv, VerdictsOver

\* Text and notices are no call's.
LEMMA SpeaksDraws ==
    ASSUME DrawnInv, Says \/ Notices PROVE DrawnInv'
<1>1. PICK kind \in {"text", "notice"}, folds \in BOOLEAN :
          PublishesAs(turn.no, <<Event(kind, NoCall, 0)>>, folds)
  BY DEF Says, Notices, Publishes
<1> DEFINE e == Event(kind, NoCall, 0)
<1>2. IsEvent(e) /\ e.kind = kind /\ PublishesAs(turn.no, <<e>>, folds)
  BY <1>1 DEF Event, IsEvent
<1> HIDE DEF e
<1>3. e.kind # "call_finished" /\ e.kind \notin Terminal
  BY <1>2 DEF Terminal
<1>4. OverStay /\ TurnStays
  BY DEF Says, Notices, OverStay, TurnStays
<1> QED
  BY <1>2, <1>3, <1>4, OneDraws

\* A call that forms may open its row.
LEMMA FormsDraws ==
    ASSUME IdInv, DrawnInv, CallForms PROVE DrawnInv'
<1> DEFINE e == Event("args", ModelId, [named |-> endpoint.names])
<1>1. /\ IsEvent(e) /\ e.kind = "args" /\ PublishesAs(turn.no, <<e>>, TRUE)
  BY DEF Event, IsEvent, CallForms, Publishes
<1> HIDE DEF e
<1>2. e.kind # "call_finished" /\ e.kind \notin Terminal
  BY <1>1 DEF Terminal
<1>3. PICK new : calls' = Append(calls, new)
  BY DEF CallForms
<1>4. OverStay
  BY <1>3, AppendStays
<1>5. TurnStays
  BY DEF CallForms, TurnStays
<1> QED
  BY <1>1, <1>2, <1>4, <1>5, OneDraws

\* No call that starts was over.
LEMMA ResponseEndsDraws ==
    ASSUME IdInv, AnswerInv, DrawnInv, ResponseEnds PROVE DrawnInv'
<1> DEFINE e == Event("iteration_finished", NoCall, 1)
<1>1. /\ IsEvent(e) /\ e.kind = "iteration_finished" /\ PublishesAs(turn.no, <<e>>, TRUE)
  BY DEF Event, IsEvent, ResponseEnds, Publishes
<1> HIDE DEF e
<1>2. e.kind # "call_finished" /\ e.kind \notin Terminal
  BY <1>1 DEF Terminal
<1>3. ASSUME NEW k \in Current PROVE calls[k].phase # "over"
  <2>1. k \in DOMAIN calls /\ OfModel(k) /\ calls[k].turn = turn.no
    BY DEF Current
  <2>2. turn.phase = "streaming"
    BY DEF ResponseEnds
  <2> QED
    BY <2>1, <2>2, StandsNow DEF ModelStands
<1>4. calls' = [k \in DOMAIN calls |->
                   IF k \in Current THEN [calls[k] EXCEPT !.phase = "starting"] ELSE calls[k]]
  BY DEF ResponseEnds
<1>5. \A k \in DOMAIN calls : calls[k].phase = "over" => k \in DOMAIN calls' /\ calls'[k] = calls[k]
  BY <1>3, <1>4
<1>6. OverStay
  BY <1>5 DEF OverStay
<1>7. TurnStays
  <2>1. turn'.no = turn.no /\ turn'.phase = "batch"
    BY TurnFields DEF ResponseEnds
  <2> QED
    BY <2>1 DEF TurnStays
<1> QED
  BY <1>1, <1>2, <1>6, <1>7, OneDraws

LEMMA EndsDraws ==
    ASSUME DrawnInv, CancelTurn \/ Fails PROVE DrawnInv'
<1>1. \E e : IsEvent(e) /\ e.kind \in Terminal /\ PublishesAs(turn.no, <<e>>, TRUE)
  <2>1. CASE CancelTurn
    <3> DEFINE e == Ending(0, TRUE, states[turn.no].iteration)
    <3>1. IsEvent(e) /\ e.kind \in Terminal /\ PublishesAs(turn.no, <<e>>, TRUE)
      BY <2>1 DEF CancelTurn, Publishes, Ending, Event, IsEvent, Terminal
    <3> HIDE DEF e
    <3> QED
      BY <3>1
  <2>2. CASE Fails
    <3> DEFINE e == Event("run_failed", NoCall, 0)
    <3>1. IsEvent(e) /\ e.kind \in Terminal /\ PublishesAs(turn.no, <<e>>, TRUE)
      BY <2>2 DEF Fails, Publishes, Event, IsEvent, Terminal
    <3> HIDE DEF e
    <3> QED
      BY <3>1
  <2> QED
    BY <2>1, <2>2
<1>2. PICK e : IsEvent(e) /\ e.kind \in Terminal /\ PublishesAs(turn.no, <<e>>, TRUE)
  BY <1>1
<1>3. e.kind # "call_finished"
  BY <1>2 DEF Terminal
<1> QED
  BY <1>2, <1>3, OneDraws

\* A call is announced, and its output is not drawn.
LEMMA AnnounceDraws ==
    ASSUME DrawnInv, NEW k \in DOMAIN calls, Announce(k) PROVE DrawnInv'
<1> DEFINE e == CallEvent("call_started", k, 0)
<1>1. IsEvent(e) /\ e.kind = "call_started" /\ PublishesAs(turn.no, <<e>>, OfModel(k))
  BY DEF CallEvent, Event, IsEvent, Announce, Publishes
<1> HIDE DEF e
<1>2. e.kind # "call_finished" /\ e.kind \notin Terminal
  BY <1>1 DEF Terminal
<1>3. calls[k].phase # "over" /\ TurnStays
  BY DEF Announce, At, TurnStays
<1>4. DOMAIN calls' = DOMAIN calls /\ \A j \in DOMAIN calls : j # k => calls'[j] = calls[j]
  BY DEF Announce
<1> QED
  BY <1>1, <1>2, <1>3, <1>4, OtherStays, OneDraws

LEMMA OutputsDraws ==
    ASSUME DrawnInv, NEW k \in DOMAIN calls, Outputs(k) PROVE DrawnInv'
<1> DEFINE e == CallEvent("output", k, 0)
<1>1. IsEvent(e) /\ e.kind = "output" /\ PublishesAs(turn.no, <<e>>, OfModel(k))
  BY DEF CallEvent, Event, IsEvent, Outputs, Publishes
<1> HIDE DEF e
<1>2. e.kind # "call_finished" /\ e.kind \notin Terminal
  BY <1>1 DEF Terminal
<1>3. OverStay /\ TurnStays
  BY DEF Outputs, OverStay, TurnStays
<1> QED
  BY <1>1, <1>2, <1>3, OneDraws

\* A tool that runs out of time takes the calls it awaits along, none that is over.
LEMMA ToolEndsDraws ==
    ASSUME IdInv, DrawnInv, NEW k \in DOMAIN calls, ToolEnds(k) PROVE DrawnInv'
<1>1. PICK awaited, status :
          calls' = [Halted(awaited) EXCEPT ![k].status = status, ![k].phase = "completing"]
  BY DEF ToolEnds
<1> DEFINE halted == Halted(awaited)
<1>2. DOMAIN halted = DOMAIN calls
  BY DEF Halted
<1>3. \A j \in DOMAIN calls : calls[j].phase = "over" => halted[j] = calls[j]
  BY HaltedIs
<1> HIDE DEF halted
<1>4. DOMAIN calls' = DOMAIN calls /\ \A j \in DOMAIN calls : j # k => calls'[j] = halted[j]
  BY <1>1, <1>2 DEF halted
<1>5. calls[k].phase # "over" /\ TurnStays /\ UNCHANGED channel
  BY DEF ToolEnds, At, TurnStays
<1>6. OverStay
  BY <1>3, <1>4, <1>5 DEF OverStay
<1> QED
  BY <1>5, <1>6, QuietDraws

\* The verdict of a call is shown, which has been shown none.
LEMMA CompletesDraws ==
    ASSUME IdInv, AnswerInv, DrawnInv, NEW k \in DOMAIN calls, Completes(k) PROVE DrawnInv'
<1> DEFINE e == CallEvent("call_finished", k, calls[k].status)
           c == calls[k]
<1>1. /\ IsEvent(e) /\ e.kind = "call_finished" /\ e.call = c.id
      /\ PublishesAs(turn.no, <<e>>, OfModel(k))
  BY DEF CallEvent, Event, IsEvent, Completes, Publishes
<1> HIDE DEF e
<1>2. c.phase = "completing" /\ turn' = turn
  BY DEF Completes, At
<1>3. c.id \notin printed.verdicts
  BY <1>2, VerdictFresh DEF DrawnInv
<1>4. ScreenInv' /\ printed'.verdicts = printed.verdicts \union {c.id}
  <2>1. e.kind \notin Terminal
    BY <1>1 DEF Terminal
  <2> QED
    BY <1>1, <1>3, <2>1, OneDrawn DEF DrawnInv, FinishedBy
<1>5. /\ DOMAIN calls' = DOMAIN calls
      /\ calls'[k] = MovedTo(c, "over", c.status, turn.no)
      /\ \A j \in DOMAIN calls : j # k => calls'[j] = calls[j]
  <2>1. calls' = [calls EXCEPT ![k] = [[c EXCEPT !.phase = "over"] EXCEPT !.ended = turn.no]]
    BY DEF Completes
  <2>2. [c EXCEPT !.phase = "over"] = MovedTo(c, "over", c.status, c.ended)
    BY Moves DEF IdInv, CallsOk
  <2>3. [MovedTo(c, "over", c.status, c.ended) EXCEPT !.ended = turn.no]
        = MovedTo(c, "over", c.status, turn.no)
    BY DEF MovedTo
  <2> QED
    BY <2>1, <2>2, <2>3
<1>6. /\ calls'[k].id = c.id /\ calls'[k].phase = "over" /\ calls'[k].turn = c.turn
      /\ calls'[k].origin = c.origin
  BY <1>5 DEF MovedTo
<1>7. OfModel(k) => c.turn = turn.no /\ turn.phase = "batch"
  BY <1>2, AtWork
<1>8. ASSUME NEW id \in printed'.verdicts
      PROVE  \E j \in DOMAIN calls' :
                 /\ calls'[j].id = id /\ calls'[j].phase = "over"
                 /\ OfModel(j)' => calls'[j].turn = turn'.no /\ turn'.phase # "over"
  <2>1. CASE id = c.id
    BY <1>2, <1>5, <1>6, <1>7, <2>1 DEF OfModel
  <2>2. CASE id # c.id
    <3>1. PICK j \in DOMAIN calls :
              /\ calls[j].id = id /\ calls[j].phase = "over"
              /\ OfModel(j) => calls[j].turn = turn.no /\ turn.phase # "over"
      BY <1>4, <2>2 DEF DrawnInv, VerdictsOver
    <3>2. j # k
      BY <2>2, <3>1
    <3> QED
      BY <1>2, <1>5, <3>1, <3>2 DEF OfModel
  <2> QED
    BY <2>1, <2>2
<1> QED
  BY <1>4, <1>8 DEF DrawnInv, VerdictsOver

\* A program calls a tool: its call is drawn when it is announced.
LEMMA ProgramDraws ==
    ASSUME IdInv, DrawnInv, NEW parent, NEW id, NEW tool, ProgramCalls(parent, id, tool)
    PROVE  DrawnInv'
<1>1. UNCHANGED channel /\ TurnStays /\ \E new : calls' = Append(calls, new)
  BY DEF ProgramCalls, TurnStays
<1> QED
  BY <1>1, AppendStays, QuietDraws

\* Every step keeps the screen true.
LEMMA DrawnNext ==
    ASSUME IdInv, AnswerInv, DrawnInv, [Next]_vars PROVE DrawnInv'
<1>1. CASE UNCHANGED vars \/ Switch
  <2>1. UNCHANGED channel /\ UNCHANGED calls /\ TurnStays
    BY <1>1 DEF vars, channel, Switch, TurnStays
  <2> QED
    BY <2>1, SameStays, QuietDraws
<1>2. ASSUME NEW k \in DOMAIN calls, CallStep(k) PROVE DrawnInv'
  <2>1. \A tool : CallsNested(k, tool) => DrawnInv'
    BY ProgramDraws DEF CallsNested
  <2> QED
    BY <1>2, <2>1, AnnounceDraws, OutputsDraws, ToolEndsDraws, CompletesDraws DEF CallStep
<1>3. ASSUME NEW tool, CallsAlone(tool) PROVE DrawnInv'
  BY <1>3, ProgramDraws DEF CallsAlone
<1> QED
  BY <1>1, <1>2, <1>3, BeginsDraws, SpeaksDraws, FormsDraws, ResponseEndsDraws, RepliesDraws,
     EndsDraws DEF Next

\* A turn is numbered within its bound.
TurnsBounded == turn.no \in 0 .. MaxTurns
LEMMA TurnsNext ==
    ASSUME IdInv, TurnsBounded, [Next]_vars PROVE TurnsBounded'
<1>1. CASE TurnBegins
  BY <1>1, ToolCallsAssumption DEF TurnBegins, TurnsBounded
<1>2. CASE ~TurnBegins
  <2>1. turn'.no = turn.no
    BY <1>2, TurnFields DEF Next, vars, Switch, Says, Notices, CallForms, ResponseEnds, Replies,
       CancelTurn, Fails, CallStep, Announce, Outputs, ToolEnds, Completes, CallsNested,
       CallsAlone, ProgramCalls
  <2> QED
    BY <2>1 DEF TurnsBounded
<1> QED
  BY <1>1, <1>2

\* cli/render.py and cli/display.py: whatever the order of the calls' events, the
\* notices and the model's text, a notice is never overwritten by a verdict, each
\* call has the one row while it runs and its verdict is shown once; the registry
\* switches off only what it has.
THEOREM ScreenAlwaysTrue == Spec => []ScreenTrue
<1> DEFINE I == /\ IdInv /\ AnswerInv /\ RegistryOk /\ DisabledOk(registry)
                /\ DrawnInv /\ TurnsBounded
<1>1. Init => DisabledOk(registry) /\ DrawnInv /\ TurnsBounded
  BY DisabledInit, DrawnInit, ToolCallsAssumption DEF Init, TurnsBounded
<1>2. /\ IdInv /\ AnswerInv /\ RegistryOk
      /\ DisabledOk(registry) /\ DrawnInv /\ TurnsBounded /\ [Next]_vars
      => (DisabledOk(registry) /\ DrawnInv /\ TurnsBounded)'
  BY DisabledNext, DrawnNext, TurnsNext
<1>3. I => ScreenTrue
  <2> SUFFICES ASSUME I PROVE ScreenTrue
    OBVIOUS
  <2>1. TypeOK
    <3>1. \A k \in DOMAIN calls :
              /\ calls[k].phase \in Phases /\ calls[k].status \in Statuses
              /\ calls[k].phase \in {"completing", "over"} => calls[k].status # "none"
              /\ calls[k].parent < k
      BY StandsNow DEF Typed, Verdicts
    <3>2. screen.block <= Len(screen.lines) /\ screen.block < screen.height
      BY DEF DrawnInv, ScreenInv, ScreenOk, ScreenShape
    <3>3. registry.disabled \subseteq NamesOf(registry.tools)
      BY DEF DisabledOk
    <3> QED
      BY <3>1, <3>2, <3>3 DEF TypeOK, TurnsBounded, AnswerInv
  <2>2. NoticesKept
    BY DEF NoticesKept, DrawnInv, ScreenInv, ScreenOk, Shown, NoticeLine
  <2>3. RowsTrue
    <3>1. screen.broken \/ RowsAre(screen, printed.verdicts)
      BY DEF DrawnInv, ScreenInv, ScreenOk
    <3> QED
      BY <3>1 DEF RowsTrue, RowsAre, Shown
  <2> QED
    BY <2>1, <2>2, <2>3 DEF ScreenTrue
<1> QED
  BY <1>1, <1>2, <1>3, RegistryAlways, AnswersAlways, PTL DEF Spec

=============================================================================
