------------------------------- MODULE BgpProofs -------------------------------
(***************************************************************************)
(* That a success lasts, that siblings stay and that a repeated command is *)
(* harmless, for any objects, requests, failures and crashes.              *)
(*                                                                         *)
(* The invariant says of the lines an operation has still to send where    *)
(* they lead: after all of them, unless one is rejected, the object is as  *)
(* asked (Leads) or gone (Clears).  Lines on an object are, in this order, *)
(* the removal of a process (Reset), one that makes or enters it (Open),   *)
(* and ones that set attributes, so that every attribute is set or already *)
(* right (Due).  Every plan is shown to lead there (PlanOK) from the       *)
(* configuration it was made from, and every line to keep what follows it  *)
(* leading there.  A session that ended well was saved (SavedInv), which   *)
(* makes of the goal reached one that lasts.                               *)
(***************************************************************************)
EXTENDS Bgp, SequenceTheorems, FiniteSetTheorems, TLAPS

-----------------------------------------------------------------------------
(* Objects and configurations. *)

\* A configuration that FRR can have: a neighbor only below a process, and no
\* communities that stand for something else.
Sound(cfg) ==
    /\ cfg = [i \in Ids |-> cfg[i]]
    /\ \A i \in Ids : cfg[i] = Absent \/ cfg[i] \in Objects(i.kind)
    /\ \A i \in Ids : i.kind = "map" /\ cfg[i] # Absent => cfg[i].tag \notin Extras
    /\ \A i \in Neighbors : cfg[i] # Absent => cfg[Global] # Absent

\* The one process.
LEMMA GlobalIsOne ==
    /\ Global \in Ids /\ Global.kind = "bgp"
    /\ \A i \in Ids : i.kind = "bgp" => i = Global
BY BgpAssumption DEF Global

\* An object is never taken for its absence.
LEMMA ObjectsExist ==
    ASSUME NEW k \in Kinds, NEW c \in Objects(k) PROVE c # Absent
<1>1. DOMAIN c = Attributes(k) /\ DOMAIN Absent = {"exists"}
  BY DEF Objects, Absent
<1>2. "exists" \notin Attributes(k)
  BY DEF Attributes, Kinds
<1>3. QED
  BY <1>1, <1>2

\* What an object is made from.
LEMMA BlankIsObject ==
    ASSUME NEW o \in Ids
    PROVE  Blank(o) \in Objects(o.kind) /\ \A a \in Attributes(o.kind) : Blank(o)[a] = None
BY DEF Blank, Objects

\* An object has finitely many attributes, so that the lines that set them are a sequence.
LEMMA FiniteAttributes == \A k \in Kinds : IsFiniteSet(Attributes(k))
<1>1. \A a, b, c, d, e, f :
        IsFiniteSet({a}) /\ IsFiniteSet({a, b, c, d, e}) /\ IsFiniteSet({a, b, c, d, e, f})
  <2> TAKE a, b, c, d, e, f
  <2>1. IsFiniteSet({a})
    BY FS_Singleton
  <2>2. IsFiniteSet({a} \cup {b})
    BY <2>1, FS_AddElement
  <2>3. IsFiniteSet(({a} \cup {b}) \cup {c})
    BY <2>2, FS_AddElement
  <2>4. IsFiniteSet((({a} \cup {b}) \cup {c}) \cup {d})
    BY <2>3, FS_AddElement
  <2>5. IsFiniteSet(((({a} \cup {b}) \cup {c}) \cup {d}) \cup {e})
    BY <2>4, FS_AddElement
  <2>6. IsFiniteSet((((({a} \cup {b}) \cup {c}) \cup {d}) \cup {e}) \cup {f})
    BY <2>5, FS_AddElement
  <2>7. /\ ((({a} \cup {b}) \cup {c}) \cup {d}) \cup {e} = {a, b, c, d, e}
        /\ (((({a} \cup {b}) \cup {c}) \cup {d}) \cup {e}) \cup {f} = {a, b, c, d, e, f}
    OBVIOUS
  <2>8. QED
    BY <2>1, <2>5, <2>6, <2>7
<1>2. QED
  BY <1>1 DEF Attributes, Kinds
-----------------------------------------------------------------------------
(* Sequences of lines. *)

\* SetToSeq lists a finite set.
LEMMA SetToSeqLists ==
    ASSUME NEW S, IsFiniteSet(S)
    PROVE  /\ SetToSeq(S) \in Seq(S)
           /\ \A x \in S : \E n \in 1..Len(SetToSeq(S)) : SetToSeq(S)[n] = x
<1> DEFINE D == 1..Cardinality(S)
           f == SetToSeq(S)
<1>1. Cardinality(S) \in Nat /\ ExistsBijection(D, S)
  BY FS_CardinalityType
<1>2. \E g \in [D -> S] : IsInjective(g)
  BY <1>1 DEF ExistsBijection, Bijection, Injection
<1>3. f \in [D -> S] /\ IsInjective(f)
  BY <1>2 DEF SetToSeq
<1> HIDE DEF f
<1>4. f \in Injection(D, S)
  BY <1>3 DEF Injection
<1>5. Cardinality(D) = Cardinality(S)
  BY <1>1, FS_Interval
<1>6. f \in Surjection(D, S)
  BY <1>4, <1>5, FS_Injection
<1>7. f \in Seq(S) /\ Len(f) = Cardinality(S)
  BY <1>1, <1>3
<1>8. \A x \in S : \E n \in D : f[n] = x
  BY <1>6 DEF Surjection
<1>9. QED
  BY <1>7, <1>8 DEF f

AllLines ==
    [do : {"set", "enter", "malformed", "unbuilt", "router", "drop", "drop name", "drop process"},
     on : Ids, attr : (UNION {Attributes(k) : k \in Kinds}) \cup {"none"}, val : Values \cup {None}]

\* The lines of Sets are one for each attribute.
LEMMA SetsLines ==
    ASSUME NEW o \in Ids, NEW attrs \in SUBSET Attributes(o.kind), NEW want,
           NEW L, \A a \in attrs : Line("set", o, a, want[a]) \in L
    PROVE  /\ Sets(o, attrs, want) \in Seq(L)
           /\ \A n \in 1..Len(Sets(o, attrs, want)) :
                \E a \in attrs : Sets(o, attrs, want)[n] = Line("set", o, a, want[a])
           /\ \A a \in attrs : \E n \in 1..Len(Sets(o, attrs, want)) :
                Sets(o, attrs, want)[n] = Line("set", o, a, want[a])
<1> DEFINE S == {Line("set", o, a, want[a]) : a \in attrs}
           g == [a \in attrs |-> Line("set", o, a, want[a])]
<1>1. IsFiniteSet(attrs)
  BY FiniteAttributes, FS_Subset, BgpAssumption
<1>2. g \in Surjection(attrs, S)
  BY DEF Surjection
<1>3. IsFiniteSet(S)
  BY <1>1, <1>2, FS_Surjection
<1>4. Sets(o, attrs, want) = SetToSeq(S)
  BY DEF Sets
<1>5. /\ Sets(o, attrs, want) \in Seq(S)
      /\ \A x \in S : \E n \in 1..Len(Sets(o, attrs, want)) : Sets(o, attrs, want)[n] = x
  BY <1>3, <1>4, SetToSeqLists
<1>6. S \subseteq L
  OBVIOUS
<1> HIDE DEF g
<1>7. Sets(o, attrs, want) \in Seq(L)
  BY <1>5, <1>6, SeqMonotonic
<1>8. \A n \in 1..Len(Sets(o, attrs, want)) : Sets(o, attrs, want)[n] \in S
  BY <1>5, ElementOfSeq
<1>9. QED
  BY <1>5, <1>7, <1>8

\* For one attribute it is one line.
LEMMA SetsOne ==
    ASSUME NEW o \in Ids, NEW a \in Attributes(o.kind), NEW want
    PROVE  Sets(o, {a}, want) = <<Line("set", o, a, want[a])>>
<1> DEFINE x == Line("set", o, a, want[a])
           s == SetToSeq({x})
<1>1. Sets(o, {a}, want) = s
  BY DEF Sets
<1>2. IsFiniteSet({x}) /\ Cardinality({x}) = 1
  BY FS_Singleton
<1>3. 1..Cardinality({x}) = {1}
  BY <1>2
<1>4. \E h \in [1..Cardinality({x}) -> {x}] : IsInjective(h)
  <2> DEFINE h == [n \in {1} |-> x]
  <2>1. h \in [{1} -> {x}] /\ IsInjective(h)
    BY DEF IsInjective
  <2>2. QED
    BY <1>3, <2>1
<1>5. s \in [1..Cardinality({x}) -> {x}]
  BY <1>4 DEF SetToSeq
<1> HIDE DEF s, x
<1>6. s \in [{1} -> {x}]
  BY <1>3, <1>5
<1>7. s = <<x>>
  BY <1>6
<1>8. QED
  BY <1>1, <1>7 DEF x
-----------------------------------------------------------------------------
(* What a line does. *)

IsDrop(l) == l.do \in {"drop", "drop name", "drop process"}

\* A line the agent may send.
Typed(l) ==
    /\ l \in AllLines
    /\ l.do = "set" => /\ l.attr \in Attributes(l.on.kind)
                       /\ l.on.kind = "map" /\ l.attr = "tag" => l.val \notin Extras
    /\ l.do = "enter" => l.on.kind = "map" /\ l.attr = "action"
    /\ l.do = "router" => l.on = Global /\ l.attr = "as"
    /\ l.do \in {"drop", "drop name"} => l.on.kind # "bgp"

\* The objects an operation p about ab touches with it.
InScope(l, p, ab) ==
    /\ l.do = "router" => p.on.kind \in {"neighbor", "bgp"}
    /\ l.do \in {"set", "enter", "drop", "drop name"} => l.on \in ab
    /\ l.do = "drop name" => SameName(l.on) \subseteq ab
    /\ l.do = "drop process" => Neighbors \cup {Global} \subseteq ab

\* It makes way for what is wanted, or brings the object towards it.
Toward(l, p) ==
    /\ p.verb = "apply" =>
         /\ l.do # "router" => l.on = p.on
         /\ l.do = "set" => l.val = p.want[l.attr]
         /\ l.do = "enter" => l.val = p.want.action
         /\ l.do = "router" /\ l.on = p.on => l.val = p.want.as
    /\ p.verb = "remove" => l.do \in {"router", "drop", "drop name"}

\* A removal takes what it names and nothing else.
LEMMA WithoutAll ==
    ASSUME NEW cfg, NEW gone
    PROVE  \A i \in Ids : Without(cfg, gone)[i] = IF i \in gone THEN Absent ELSE cfg[i]
BY DEF Without

\* What is accepted makes the object exist and sets one attribute.
LEMMA PutSets ==
    ASSUME NEW cfg, Sound(cfg), NEW l \in AllLines, l.attr \in Attributes(l.on.kind),
           NEW i \in Ids
    PROVE  /\ Put(cfg, l) = [j \in Ids |-> Put(cfg, l)[j]]
           /\ i # l.on => Put(cfg, l)[i] = cfg[i]
           /\ cfg[l.on] # Absent => Put(cfg, l)[l.on] = [cfg[l.on] EXCEPT ![l.attr] = l.val]
           /\ cfg[l.on] = Absent /\ l.attr \in {"entry", "as"} =>
                Put(cfg, l)[l.on] = [Blank(l.on) EXCEPT ![l.attr] = l.val]
           /\ cfg[l.on] = Absent /\ l.attr \notin {"entry", "as"} => Put(cfg, l) = cfg
<1>1. l.on \in Ids /\ cfg = [j \in Ids |-> cfg[j]]
  BY DEF AllLines, Sound
<1>2. CASE cfg[l.on] # Absent
  <2>1. Put(cfg, l) = [cfg EXCEPT ![l.on] = [cfg[l.on] EXCEPT ![l.attr] = l.val]]
    BY <1>2 DEF Put
  <2>2. QED
    BY <1>1, <1>2, <2>1
<1>3. CASE cfg[l.on] = Absent /\ l.attr \in {"entry", "as"}
  <2>1. Put(cfg, l) = [cfg EXCEPT ![l.on] = [Blank(l.on) EXCEPT ![l.attr] = l.val]]
    BY <1>3 DEF Put
  <2>2. QED
    BY <1>1, <1>3, <2>1
<1>4. CASE cfg[l.on] = Absent /\ l.attr \notin {"entry", "as"}
  <2>1. Put(cfg, l) = cfg
    BY <1>4 DEF Put
  <2>2. QED
    BY <1>1, <1>4, <2>1
<1>5. QED
  BY <1>2, <1>3, <1>4

\* Setting an attribute keeps a configuration sound.
LEMMA PutSound ==
    ASSUME NEW cfg, Sound(cfg), NEW l, Typed(l), l.do \in {"set", "router"},
           l.on.kind = "neighbor" => cfg[Global] # Absent
    PROVE  Sound(Put(cfg, l))
<1> DEFINE new == Put(cfg, l)
<1>1. l \in AllLines /\ l.on \in Ids /\ l.on.kind \in Kinds /\ l.val \in Values \cup {None}
  BY BgpAssumption DEF Typed, AllLines
<1>2. l.attr \in Attributes(l.on.kind)
  BY GlobalIsOne DEF Typed, Attributes
<1>3. /\ new = [j \in Ids |-> new[j]]
      /\ \A i \in Ids : i # l.on => new[i] = cfg[i]
      /\ cfg[l.on] # Absent => new[l.on] = [cfg[l.on] EXCEPT ![l.attr] = l.val]
      /\ cfg[l.on] = Absent /\ l.attr \in {"entry", "as"} =>
           new[l.on] = [Blank(l.on) EXCEPT ![l.attr] = l.val]
      /\ cfg[l.on] = Absent /\ l.attr \notin {"entry", "as"} => new = cfg
  BY <1>1, <1>2, PutSets
<1> HIDE DEF new
<1>4. cfg[l.on] # Absent => new[l.on] \in Objects(l.on.kind) /\ new[l.on] # Absent
  <2> SUFFICES ASSUME cfg[l.on] # Absent
               PROVE  new[l.on] \in Objects(l.on.kind) /\ new[l.on] # Absent
    OBVIOUS
  <2>1. cfg[l.on] \in Objects(l.on.kind)
    BY <1>1 DEF Sound
  <2>2. new[l.on] \in Objects(l.on.kind)
    BY <1>1, <1>2, <1>3, <2>1 DEF Objects
  <2>3. QED
    BY <1>1, <2>2, ObjectsExist
<1>5. cfg[l.on] = Absent /\ l.attr \in {"entry", "as"} =>
        new[l.on] \in Objects(l.on.kind) /\ new[l.on] # Absent
  <2> SUFFICES ASSUME cfg[l.on] = Absent, l.attr \in {"entry", "as"}
               PROVE  new[l.on] \in Objects(l.on.kind) /\ new[l.on] # Absent
    OBVIOUS
  <2>1. Blank(l.on) \in Objects(l.on.kind)
    BY <1>1, BlankIsObject
  <2>2. new[l.on] \in Objects(l.on.kind)
    BY <1>1, <1>2, <1>3, <2>1 DEF Objects
  <2>3. QED
    BY <1>1, <2>2, ObjectsExist
<1>6. \A i \in Ids : new[i] = Absent \/ new[i] \in Objects(i.kind)
  BY <1>3, <1>4, <1>5 DEF Sound
<1>7. \A i \in Ids : cfg[i] # Absent => new[i] # Absent
  BY <1>3, <1>4
<1>8. \A i \in Neighbors : new[i] # Absent => new[Global] # Absent
  BY <1>1, <1>3, <1>7, GlobalIsOne DEF Sound, Neighbors
<1>9. \A i \in Ids : i.kind = "map" /\ new[i] # Absent => new[i].tag \notin Extras
  <2> SUFFICES ASSUME NEW i \in Ids, i.kind = "map", new[i] # Absent PROVE new[i].tag \notin Extras
    OBVIOUS
  <2>1. CASE i # l.on
    BY <1>3, <2>1 DEF Sound
  <2>2. CASE i = l.on
    <3>1. l.attr \notin {"entry", "as"}
      BY <1>2, <2>2 DEF Attributes
    <3>2. cfg[i] # Absent
      BY <1>3, <2>2, <3>1
    <3>3. cfg[i] \in Objects("map") /\ cfg[i].tag \notin Extras
      BY <3>2 DEF Sound
    <3>4. new[i] = [cfg[i] EXCEPT ![l.attr] = l.val]
      BY <1>3, <2>2, <3>2
    <3>5. l.attr = "tag" => l.val \notin Extras
      BY <2>2, GlobalIsOne DEF Typed
    <3>6. QED
      BY <3>3, <3>4, <3>5 DEF Objects, Attributes
  <2>3. QED
    BY <2>1, <2>2
<1>10. QED
  BY <1>3, <1>6, <1>8, <1>9 DEF Sound, new

\* Entering a route map: others stay, and so does the entry unless its action changes.
LEMMA EnterMakes ==
    ASSUME NEW cfg, Sound(cfg), NEW l, Typed(l), l.do = "enter", NEW i \in Ids
    PROVE  /\ Enter(cfg, l) = [j \in Ids |-> Enter(cfg, l)[j]]
           /\ i # l.on => Enter(cfg, l)[i] = cfg[i]
           /\ cfg[l.on] # Absent /\ cfg[l.on].action = l.val => Enter(cfg, l)[l.on] = cfg[l.on]
           /\ ~(cfg[l.on] # Absent /\ cfg[l.on].action = l.val) =>
                Enter(cfg, l)[l.on] = [Blank(l.on) EXCEPT !.action = l.val]
<1>1. l.on \in Ids /\ cfg = [j \in Ids |-> cfg[j]]
  BY DEF Typed, AllLines, Sound
<1>2. CASE cfg[l.on] # Absent /\ cfg[l.on].action = l.val
  <2>1. Enter(cfg, l) = cfg
    BY <1>2 DEF Enter
  <2>2. QED
    BY <1>1, <1>2, <2>1
<1>3. CASE ~(cfg[l.on] # Absent /\ cfg[l.on].action = l.val)
  <2>1. Enter(cfg, l) = [cfg EXCEPT ![l.on] = [Blank(l.on) EXCEPT !.action = l.val]]
    BY <1>3 DEF Enter
  <2>2. QED
    BY <1>1, <1>3, <2>1
<1>4. QED
  BY <1>2, <1>3

\* Setting an attribute leaves other objects alone.
LEMMA PutElsewhere ==
    ASSUME NEW cfg, Sound(cfg), NEW l \in AllLines, l.attr \in Attributes(l.on.kind),
           NEW i \in Ids, i # l.on
    PROVE  Put(cfg, l)[i] = cfg[i]
BY DEF Put, Sound

\* So does entering a route map.
LEMMA EnterElsewhere ==
    ASSUME NEW cfg, Sound(cfg), NEW l, Typed(l), l.do = "enter", NEW i \in Ids, i # l.on
    PROVE  Enter(cfg, l)[i] = cfg[i]
BY DEF Enter, Sound

\* Entering a route map keeps a configuration sound.
LEMMA EnterSound ==
    ASSUME NEW cfg, Sound(cfg), NEW l, Typed(l), l.do = "enter"
    PROVE  Sound(Enter(cfg, l))
<1> DEFINE new == Enter(cfg, l)
<1>1. l.on \in Ids /\ l.on.kind = "map" /\ l.val \in Values \cup {None}
  BY DEF Typed, AllLines
<1>2. /\ new = [j \in Ids |-> new[j]]
      /\ \A i \in Ids : i # l.on => new[i] = cfg[i]
      /\ new[l.on] = cfg[l.on] \/ new[l.on] = [Blank(l.on) EXCEPT !.action = l.val]
  BY <1>1, EnterMakes
<1> HIDE DEF new
<1>3. /\ Blank(l.on) \in Objects("map") /\ Blank(l.on).tag = None /\ "map" \in Kinds
  BY <1>1, BlankIsObject DEF Attributes, Kinds
<1>4. /\ [Blank(l.on) EXCEPT !.action = l.val] \in Objects("map")
      /\ [Blank(l.on) EXCEPT !.action = l.val].tag = None
  BY <1>1, <1>3 DEF Objects, Attributes
<1>5. \A i \in Ids : new[i] = Absent \/ new[i] \in Objects(i.kind)
  BY <1>1, <1>2, <1>4 DEF Sound
<1>6. \A i \in Ids : i.kind = "map" /\ new[i] # Absent => new[i].tag \notin Extras
  BY <1>1, <1>2, <1>4, BgpAssumption DEF Sound
<1>7. \A i \in Neighbors : new[i] # Absent => new[Global] # Absent
  BY <1>1, <1>2, GlobalIsOne DEF Sound, Neighbors
<1>8. QED
  BY <1>2, <1>5, <1>6, <1>7 DEF Sound, new

\* A removal does, if the process does not go without its neighbors.
LEMMA WithoutSound ==
    ASSUME NEW cfg, Sound(cfg), NEW gone, Global \in gone => Neighbors \subseteq gone
    PROVE  Sound(Without(cfg, gone))
<1> DEFINE new == Without(cfg, gone)
<1>1. \A i \in Ids : new[i] = IF i \in gone THEN Absent ELSE cfg[i]
  BY WithoutAll
<1>2. new = [i \in Ids |-> new[i]]
  BY DEF Without
<1> HIDE DEF new
<1>3. QED
  BY <1>1, <1>2, GlobalIsOne DEF Sound, Neighbors, new

\* The cases of a line.
LEMMA AppliedCases ==
    ASSUME NEW cfg, NEW s, NEW l \in AllLines
    PROVE  /\ Rejects(cfg, s, l) => Applied(cfg, s, l) = cfg
           /\ ~Rejects(cfg, s, l) =>
                /\ l.do \notin {"malformed", "unbuilt"}
                /\ l.do = "enter" => Applied(cfg, s, l) = Enter(cfg, l)
                /\ l.do = "set" => Applied(cfg, s, l) = Put(cfg, l)
                /\ l.do = "router" /\ cfg[Global] = Absent => Applied(cfg, s, l) = Put(cfg, l)
                /\ l.do = "router" /\ cfg[Global] # Absent => Applied(cfg, s, l) = cfg
                /\ l.do = "drop" => Applied(cfg, s, l) = Without(cfg, {l.on})
                /\ l.do = "drop name" => Applied(cfg, s, l) = Without(cfg, SameName(l.on))
                /\ l.do = "drop process" =>
                     Applied(cfg, s, l) = Without(cfg, Neighbors \cup {Global})
<1>1. CASE Rejects(cfg, s, l)
  BY <1>1 DEF Applied
<1>2. CASE ~Rejects(cfg, s, l)
  <2>1. l.do \notin {"malformed", "unbuilt"}
    BY <1>2 DEF Rejects, Reported
  <2>2. QED
    BY <1>2, <2>1 DEF Applied, AllLines
<1>3. QED
  BY <1>1, <1>2

\* A line the agent may send keeps a configuration sound.
LEMMA AppliedSound ==
    ASSUME NEW cfg, Sound(cfg), NEW s, NEW l, Typed(l)
    PROVE  Sound(Applied(cfg, s, l))
<1>1. l \in AllLines
  BY DEF Typed
<1>2. CASE Rejects(cfg, s, l)
  <2>1. Applied(cfg, s, l) = cfg
    BY <1>1, <1>2, AppliedCases
  <2>2. QED
    BY <2>1
<1>3. CASE ~Rejects(cfg, s, l) /\ l.do \in {"set", "router"}
  <2>1. l.on.kind = "neighbor" => cfg[Global] # Absent
    BY <1>3 DEF Rejects, Reported
  <2>2. Sound(Put(cfg, l))
    BY <1>3, <2>1, PutSound
  <2>3. Applied(cfg, s, l) = Put(cfg, l) \/ Applied(cfg, s, l) = cfg
    BY <1>1, <1>3, AppliedCases
  <2>4. QED
    BY <2>2, <2>3
<1>4. CASE ~Rejects(cfg, s, l) /\ l.do = "enter"
  <2>1. Applied(cfg, s, l) = Enter(cfg, l)
    BY <1>1, <1>4, AppliedCases
  <2>2. Sound(Enter(cfg, l))
    BY <1>4, EnterSound
  <2>3. QED
    BY <2>1, <2>2
<1>5. CASE ~Rejects(cfg, s, l) /\ l.do \in {"drop", "drop name"}
  <2>1. Global \notin {l.on} /\ Global \notin SameName(l.on)
    BY <1>5, GlobalIsOne DEF Typed, SameName
  <2>2. Sound(Without(cfg, {l.on})) /\ Sound(Without(cfg, SameName(l.on)))
    BY <2>1, WithoutSound
  <2>3. \/ Applied(cfg, s, l) = Without(cfg, {l.on})
        \/ Applied(cfg, s, l) = Without(cfg, SameName(l.on))
    BY <1>1, <1>5, AppliedCases
  <2>4. QED
    BY <2>2, <2>3
<1>6. CASE ~Rejects(cfg, s, l) /\ l.do = "drop process"
  <2>1. Sound(Without(cfg, Neighbors \cup {Global}))
    BY WithoutSound
  <2>2. QED
    BY <1>1, <1>6, <2>1, AppliedCases
<1>7. QED
  BY <1>1, <1>2, <1>3, <1>4, <1>5, <1>6, AppliedCases DEF AllLines

\* A line leaves alone what its operation is not about.
LEMMA AppliedInScope ==
    ASSUME NEW cfg, Sound(cfg), NEW s, NEW l, Typed(l), NEW p, NEW ab, InScope(l, p, ab),
           p.on.kind \in {"neighbor", "bgp"} => Global \in ab \/ cfg[Global] # Absent,
           NEW i \in Ids, i \notin ab
    PROVE  Applied(cfg, s, l)[i] = cfg[i]
<1>1. l \in AllLines
  BY DEF Typed
<1>2. CASE Rejects(cfg, s, l)
  BY <1>1, <1>2, AppliedCases
<1>3. CASE ~Rejects(cfg, s, l) /\ l.do = "set"
  <2>1. l.on # i /\ l.attr \in Attributes(l.on.kind)
    BY <1>3 DEF InScope, Typed
  <2>2. Put(cfg, l)[i] = cfg[i]
    BY <1>1, <2>1, PutElsewhere
  <2>3. QED
    BY <1>1, <1>3, <2>2, AppliedCases
<1>4. CASE ~Rejects(cfg, s, l) /\ l.do = "router"
  <2>1. l.on = Global /\ l.attr \in Attributes(l.on.kind)
    BY <1>4, GlobalIsOne DEF Typed, Attributes
  <2>2. CASE cfg[Global] = Absent
    <3>1. i # l.on
      BY <1>4, <2>1, <2>2 DEF InScope
    <3>2. l.attr \in Attributes(l.on.kind)
      BY <2>1
    <3>3. Put(cfg, l)[i] = cfg[i]
      BY <1>1, <3>1, <3>2, PutElsewhere
    <3>4. QED
      BY <1>1, <1>4, <2>2, <3>3, AppliedCases
  <2>3. CASE cfg[Global] # Absent
    BY <1>1, <1>4, <2>3, AppliedCases
  <2>4. QED
    BY <2>2, <2>3
<1>5. CASE ~Rejects(cfg, s, l) /\ l.do = "enter"
  <2>1. i # l.on
    BY <1>5 DEF InScope
  <2>2. Enter(cfg, l)[i] = cfg[i]
    BY <1>5, <2>1, EnterElsewhere
  <2>3. QED
    BY <1>1, <1>5, <2>2, AppliedCases
<1>6. CASE ~Rejects(cfg, s, l) /\ IsDrop(l)
  <2>1. /\ l.do = "drop" => i \notin {l.on}
        /\ l.do = "drop name" => i \notin SameName(l.on)
        /\ l.do = "drop process" => i \notin Neighbors \cup {Global}
    BY <1>6 DEF InScope
  <2>2. /\ l.do = "drop" => Without(cfg, {l.on})[i] = cfg[i]
        /\ l.do = "drop name" => Without(cfg, SameName(l.on))[i] = cfg[i]
        /\ l.do = "drop process" => Without(cfg, Neighbors \cup {Global})[i] = cfg[i]
    BY <2>1 DEF Without
  <2>3. QED
    BY <1>1, <1>6, <2>2, AppliedCases DEF IsDrop
<1>7. QED
  BY <1>1, <1>2, <1>3, <1>4, <1>5, <1>6, AppliedCases DEF AllLines, IsDrop
-----------------------------------------------------------------------------
(* What the lines left of a session lead to. *)

\* The lines of an operation p about ab.
Lines(p, ab) == {l \in AllLines : Typed(l) /\ InScope(l, p, ab) /\ Toward(l, p)}

\* An object as it is, or as it would be made.
Now(cfg, o) == IF cfg[o] # Absent THEN cfg[o] ELSE Blank(o)

\* One of the lines sets an attribute of o.
Covers(ls, o, a) == \E n \in 1..Len(ls) : ls[n].on = o /\ ls[n].do = "set" /\ ls[n].attr = a

OnlySets(ls, o) == \A n \in 1..Len(ls) : ls[n].on = o => ls[n].do = "set"

\* The first line on o is one that makes it.
Makes(ls, o) ==
    \E n \in 1..Len(ls) : /\ ls[n].on = o /\ ls[n].attr \in {"entry", "as"}
                          /\ \A m \in 1..(n - 1) : ls[m].on # o

\* The lines ls bring o from what it is in cfg to w.
Due(cfg, ls, o, w) ==
    /\ OnlySets(ls, o)
    /\ \A a \in Attributes(o.kind) : Covers(ls, o, a) \/ Now(cfg, o)[a] = w[a]
    /\ cfg[o] # Absent \/ Makes(ls, o)

\* A session of at least one line, and what follows the line.
LEMMA HeadAndTail ==
    ASSUME NEW L, NEW ls \in Seq(L), ls # <<>>
    PROVE  /\ Head(ls) \in L /\ Head(ls) = ls[1] /\ 1 \in 1..Len(ls)
           /\ Tail(ls) \in Seq(L) /\ Len(Tail(ls)) = Len(ls) - 1
           /\ \A n \in 1..Len(Tail(ls)) : n + 1 \in 1..Len(ls) /\ Tail(ls)[n] = ls[n + 1]
           /\ \A n \in 1..Len(ls) :
                n # 1 => n - 1 \in 1..Len(Tail(ls)) /\ Tail(ls)[n - 1] = ls[n]
OBVIOUS

\* An attribute that a session sets is set by its first line or after it.
LEMMA TailCovers ==
    ASSUME NEW L, NEW ls \in Seq(L), ls # <<>>, NEW o, NEW a, Covers(ls, o, a)
    PROVE  \/ Covers(Tail(ls), o, a)
           \/ Head(ls).on = o /\ Head(ls).do = "set" /\ Head(ls).attr = a
<1>1. PICK n \in 1..Len(ls) : ls[n].on = o /\ ls[n].do = "set" /\ ls[n].attr = a
  BY DEF Covers
<1>2. CASE n = 1
  BY <1>1, <1>2, HeadAndTail
<1>3. CASE n # 1
  <2>1. n - 1 \in 1..Len(Tail(ls)) /\ Tail(ls)[n - 1] = ls[n]
    BY <1>3, HeadAndTail
  <2>2. QED
    BY <1>1, <2>1 DEF Covers
<1>4. QED
  BY <1>2, <1>3

\* What follows sets only what the session did.
LEMMA TailOnlySets ==
    ASSUME NEW L, NEW ls \in Seq(L), ls # <<>>, NEW o, OnlySets(ls, o)
    PROVE  OnlySets(Tail(ls), o)
<1> SUFFICES ASSUME NEW n \in 1..Len(Tail(ls)), Tail(ls)[n].on = o PROVE Tail(ls)[n].do = "set"
  BY DEF OnlySets
<1>1. n + 1 \in 1..Len(ls) /\ Tail(ls)[n] = ls[n + 1]
  BY HeadAndTail
<1>2. QED
  BY <1>1 DEF OnlySets

\* An object that a session makes is made by its first line or after it.
LEMMA TailMakes ==
    ASSUME NEW L, NEW ls \in Seq(L), ls # <<>>, NEW o, Makes(ls, o)
    PROVE  \/ Head(ls).on = o /\ Head(ls).attr \in {"entry", "as"}
           \/ Head(ls).on # o /\ Makes(Tail(ls), o)
<1>1. PICK n \in 1..Len(ls) : /\ ls[n].on = o /\ ls[n].attr \in {"entry", "as"}
                              /\ \A m \in 1..(n - 1) : ls[m].on # o
  BY DEF Makes
<1>2. CASE n = 1
  BY <1>1, <1>2, HeadAndTail
<1>3. CASE n # 1
  <2>1. n - 1 \in 1..Len(Tail(ls)) /\ Tail(ls)[n - 1] = ls[n]
    BY <1>3, HeadAndTail
  <2>2. 1 \in 1..(n - 1) /\ Head(ls) = ls[1]
    BY <1>3, HeadAndTail
  <2>3. ASSUME NEW m \in 1..((n - 1) - 1) PROVE Tail(ls)[m].on # o
    <3>1. m \in 1..Len(Tail(ls)) /\ m + 1 \in 1..(n - 1)
      BY <2>1
    <3>2. Tail(ls)[m] = ls[m + 1]
      BY <3>1, HeadAndTail
    <3>3. QED
      BY <1>1, <3>1, <3>2
  <2>4. Makes(Tail(ls), o)
    BY <1>1, <2>1, <2>3 DEF Makes
  <2>5. QED
    BY <1>1, <2>2, <2>4
<1>4. QED
  BY <1>2, <1>3

\* What setting an attribute makes of an object.
LEMMA SetEffect ==
    ASSUME NEW cfg, Sound(cfg), NEW s, NEW l, Typed(l), l.do = "set", ~Rejects(cfg, s, l),
           cfg[l.on] # Absent \/ l.attr \in {"entry", "as"}
    PROVE  /\ Applied(cfg, s, l)[l.on] # Absent
           /\ \A a \in Attributes(l.on.kind) :
                Applied(cfg, s, l)[l.on][a] = IF a = l.attr THEN l.val ELSE Now(cfg, l.on)[a]
<1> DEFINE new == Applied(cfg, s, l)
           o == l.on
<1>1. /\ l \in AllLines /\ o \in Ids /\ o.kind \in Kinds /\ l.val \in Values \cup {None}
      /\ l.attr \in Attributes(o.kind)
  BY BgpAssumption DEF Typed, AllLines
<1>2. new = Put(cfg, l)
  BY <1>1, AppliedCases
<1>3. new[o] = [Now(cfg, o) EXCEPT ![l.attr] = l.val]
  BY <1>1, <1>2 DEF Put, Now, Sound
<1>4. Now(cfg, o) \in Objects(o.kind)
  BY <1>1, BlankIsObject DEF Now, Sound
<1> HIDE DEF new
<1>5. new[o] \in Objects(o.kind)
  BY <1>1, <1>3, <1>4 DEF Objects
<1>6. new[o] # Absent
  BY <1>1, <1>5, ObjectsExist
<1>7. \A a \in Attributes(o.kind) : new[o][a] = IF a = l.attr THEN l.val ELSE Now(cfg, o)[a]
  BY <1>1, <1>3, <1>4 DEF Objects
<1>8. QED
  BY <1>6, <1>7 DEF new

\* A line that opens the session makes o, or finds it with the value it names.
Open(cfg, ls, o, w) ==
    /\ ls # <<>> /\ Head(ls).on = o /\ Head(ls).do \in {"enter", "router"}
    /\ cfg[o] # Absent => cfg[o][Head(ls).attr] = w[Head(ls).attr]
    /\ OnlySets(Tail(ls), o)
    /\ \A a \in Attributes(o.kind) \ {Head(ls).attr} :
         Covers(Tail(ls), o, a) \/ Now(cfg, o)[a] = w[a]

\* A process that is removed first.
Reset(ls, o, w) ==
    /\ ls # <<>> /\ Head(ls).on = o /\ Head(ls).do = "drop process"
    /\ Tail(ls) # <<>> /\ Head(Tail(ls)).on = o /\ Head(Tail(ls)).do = "router"
    /\ OnlySets(Tail(Tail(ls)), o)
    /\ \A a \in Attributes(o.kind) \ {Head(Tail(ls)).attr} :
         Covers(Tail(Tail(ls)), o, a) \/ w[a] = None

\* A line that FRR is sure to reject.
Doomed(ls) == \E n \in 1..Len(ls) : ls[n].do \in {"malformed", "unbuilt"}

\* Unless a line is rejected, o is w when the session is over.
Leads(cfg, ls, o, w) ==
    Due(cfg, ls, o, w) \/ Open(cfg, ls, o, w) \/ Reset(ls, o, w) \/ Doomed(ls)

\* A line that is not rejected leaves what is due due.
LEMMA DueStep ==
    ASSUME NEW cfg, Sound(cfg), NEW s, NEW p, p.verb = "apply", p.on \in Ids, NEW ab,
           NEW ls \in Seq(Lines(p, ab)), ls # <<>>, ~Rejects(cfg, s, Head(ls)),
           Due(cfg, ls, p.on, p.want)
    PROVE  Due(Applied(cfg, s, Head(ls)), Tail(ls), p.on, p.want)
<1> DEFINE l == Head(ls)
           o == p.on
           new == Applied(cfg, s, l)
<1>1. l \in Lines(p, ab) /\ l = ls[1] /\ 1 \in 1..Len(ls)
  BY HeadAndTail
<1>2. Typed(l) /\ InScope(l, p, ab) /\ Toward(l, p) /\ l \in AllLines
  BY <1>1 DEF Lines
<1>3. OnlySets(Tail(ls), o)
  BY TailOnlySets DEF Due
<1>4. CASE l.on # o
  <2>1. l.do = "router" /\ l.on = Global /\ l.attr = "as" /\ l.attr \in Attributes(l.on.kind)
    BY <1>2, <1>4, GlobalIsOne DEF Toward, Typed, Attributes
  <2>2. Put(cfg, l)[o] = cfg[o]
    BY <1>2, <1>4, <2>1, PutElsewhere
  <2>3. new = cfg \/ new = Put(cfg, l)
    BY <1>2, <2>1, AppliedCases
  <2>4. new[o] = cfg[o]
    BY <2>2, <2>3
  <2>5. \A a : Covers(ls, o, a) => Covers(Tail(ls), o, a)
    BY <1>4, TailCovers
  <2>6. Makes(ls, o) => Makes(Tail(ls), o)
    BY <1>4, TailMakes
  <2> HIDE DEF new, o
  <2>7. Now(new, o) = Now(cfg, o)
    BY <2>4 DEF Now
  <2>8. \A a \in Attributes(o.kind) : Covers(Tail(ls), o, a) \/ Now(new, o)[a] = p.want[a]
    BY <2>5, <2>7 DEF Due, o
  <2>9. new[o] # Absent \/ Makes(Tail(ls), o)
    BY <2>4, <2>6 DEF Due, o
  <2>10. QED
    BY <1>3, <2>8, <2>9 DEF Due, new, o
<1>5. CASE l.on = o
  <2>1. l.do = "set" /\ l.val = p.want[l.attr]
    BY <1>1, <1>2, <1>5 DEF Due, OnlySets, Toward
  <2>2. cfg[l.on] # Absent \/ l.attr \in {"entry", "as"}
    BY <1>5, TailMakes DEF Due
  <2>3. /\ new[o] # Absent
        /\ \A a \in Attributes(o.kind) : new[o][a] = IF a = l.attr THEN l.val ELSE Now(cfg, o)[a]
    <3>1. /\ Applied(cfg, s, l)[l.on] # Absent
          /\ \A a \in Attributes(l.on.kind) :
               Applied(cfg, s, l)[l.on][a] = IF a = l.attr THEN l.val ELSE Now(cfg, l.on)[a]
      <4>1. ~Rejects(cfg, s, l)
        OBVIOUS
      <4> HIDE DEF l
      <4>2. QED
        BY <1>2, <2>1, <2>2, <4>1, SetEffect
    <3>2. QED
      BY <1>5, <3>1
  <2>4. \A a : Covers(ls, o, a) => Covers(Tail(ls), o, a) \/ a = l.attr
    BY TailCovers
  <2> HIDE DEF new, o, l
  <2>5. Now(new, o) = new[o]
    BY <2>3 DEF Now
  <2>6. ASSUME NEW a \in Attributes(o.kind)
        PROVE  Covers(Tail(ls), o, a) \/ Now(new, o)[a] = p.want[a]
    <3>1. CASE a = l.attr
      BY <2>1, <2>3, <2>5, <3>1
    <3>2. CASE a # l.attr
      <4>1. Covers(ls, o, a) \/ Now(cfg, o)[a] = p.want[a]
        BY DEF Due, o
      <4>2. QED
        BY <2>3, <2>4, <2>5, <3>2, <4>1
    <3>3. QED
      BY <3>1, <3>2
  <2>7. QED
    BY <1>3, <2>3, <2>6 DEF Due, new, o, l
<1>6. QED
  BY <1>4, <1>5

\* What a line that opens a session makes of the object.
LEMMA OpenEffect ==
    ASSUME NEW cfg, Sound(cfg), NEW s, NEW l, Typed(l), l.do \in {"enter", "router"},
           ~Rejects(cfg, s, l), cfg[l.on] = Absent \/ cfg[l.on][l.attr] = l.val
    PROVE  /\ Applied(cfg, s, l)[l.on] # Absent
           /\ \A a \in Attributes(l.on.kind) :
                Applied(cfg, s, l)[l.on][a] = IF a = l.attr THEN l.val ELSE Now(cfg, l.on)[a]
<1> DEFINE new == Applied(cfg, s, l)
           o == l.on
<1>1. /\ l \in AllLines /\ o \in Ids /\ o.kind \in Kinds /\ l.val \in Values \cup {None}
      /\ l.attr \in Attributes(o.kind)
  BY BgpAssumption, GlobalIsOne DEF Typed, AllLines, Attributes
<1>2. CASE cfg[o] # Absent
  <2>1. new = cfg
    <3>1. CASE l.do = "enter"
      <4>1. l.attr = "action"
        BY <3>1 DEF Typed
      <4>2. cfg[o].action = l.val
        BY <1>2, <4>1
      <4>3. Enter(cfg, l) = cfg
        BY <1>2, <4>2 DEF Enter
      <4>4. QED
        BY <1>1, <3>1, <4>3, AppliedCases
    <3>2. CASE l.do = "router"
      <4>1. o = Global
        BY <3>2 DEF Typed
      <4>2. QED
        BY <1>1, <1>2, <3>2, <4>1, AppliedCases
    <3>3. QED
      BY <3>1, <3>2
  <2> HIDE DEF new, o
  <2>2. Now(cfg, o) = cfg[o]
    BY <1>2 DEF Now
  <2>3. cfg[o][l.attr] = l.val
    BY <1>2 DEF o
  <2>4. QED
    BY <1>2, <2>1, <2>2, <2>3 DEF new, o
<1>3. CASE cfg[o] = Absent
  <2>1. new[o] = [Blank(o) EXCEPT ![l.attr] = l.val]
    <3>1. CASE l.do = "enter"
      <4>1. l.attr = "action"
        BY <3>1 DEF Typed
      <4>2. Enter(cfg, l)[o] = [Blank(o) EXCEPT !.action = l.val]
        BY <1>1, <1>3, <3>1, EnterMakes
      <4>3. new = Enter(cfg, l)
        BY <1>1, <3>1, AppliedCases
      <4>4. QED
        BY <4>1, <4>2, <4>3
    <3>2. CASE l.do = "router"
      <4>1. o = Global /\ l.attr = "as"
        BY <3>2 DEF Typed
      <4>2. Put(cfg, l)[o] = [Blank(o) EXCEPT ![l.attr] = l.val]
        BY <1>1, <1>3, <4>1, PutSets
      <4>3. new = Put(cfg, l)
        BY <1>1, <1>3, <3>2, <4>1, AppliedCases
      <4>4. QED
        BY <4>2, <4>3
    <3>3. QED
      BY <3>1, <3>2
  <2>2. Blank(o) \in Objects(o.kind) /\ Now(cfg, o) = Blank(o)
    BY <1>1, <1>3, BlankIsObject DEF Now
  <2> HIDE DEF new, o
  <2>3. new[o] \in Objects(o.kind)
    BY <1>1, <2>1, <2>2 DEF Objects
  <2>4. new[o] # Absent
    BY <1>1, <2>3, ObjectsExist
  <2>5. \A a \in Attributes(o.kind) : new[o][a] = IF a = l.attr THEN l.val ELSE Now(cfg, o)[a]
    BY <1>1, <2>1, <2>2 DEF Objects
  <2>6. QED
    BY <2>4, <2>5 DEF new, o
<1>4. QED
  BY <1>2, <1>3

\* After the line that opens an object the rest is due.
LEMMA OpenStep ==
    ASSUME NEW cfg, Sound(cfg), NEW s, NEW p, p.verb = "apply", p.on \in Ids, NEW ab,
           NEW ls \in Seq(Lines(p, ab)), ls # <<>>, ~Rejects(cfg, s, Head(ls)),
           Open(cfg, ls, p.on, p.want)
    PROVE  Due(Applied(cfg, s, Head(ls)), Tail(ls), p.on, p.want)
<1> DEFINE l == Head(ls)
           o == p.on
           new == Applied(cfg, s, l)
<1>1. /\ Typed(l) /\ Toward(l, p) /\ ~Rejects(cfg, s, l)
      /\ l.on = o /\ l.do \in {"enter", "router"}
  BY HeadAndTail DEF Lines, Open
<1>2. l.val = p.want[l.attr]
  BY <1>1 DEF Toward, Typed
<1>3. cfg[l.on] = Absent \/ cfg[l.on][l.attr] = l.val
  BY <1>1, <1>2 DEF Open
<1>4. /\ OnlySets(Tail(ls), o)
      /\ \A a \in Attributes(o.kind) \ {l.attr} :
           Covers(Tail(ls), o, a) \/ Now(cfg, o)[a] = p.want[a]
  BY DEF Open
<1> HIDE DEF l
<1>5. /\ new[l.on] # Absent
      /\ \A a \in Attributes(l.on.kind) :
           new[l.on][a] = IF a = l.attr THEN l.val ELSE Now(cfg, l.on)[a]
  <2>1. Typed(l) /\ l.do \in {"enter", "router"} /\ ~Rejects(cfg, s, l)
    BY <1>1
  <2>2. QED
    BY <1>3, <2>1, OpenEffect
<1> HIDE DEF new
<1>6. Now(new, o) = new[o]
  BY <1>1, <1>5 DEF Now
<1>7. \A a \in Attributes(o.kind) : Covers(Tail(ls), o, a) \/ Now(new, o)[a] = p.want[a]
  BY <1>1, <1>2, <1>4, <1>5, <1>6
<1>8. QED
  BY <1>1, <1>4, <1>5, <1>7 DEF Due, new, l

\* After the removal of the process the line that makes it anew is next.
LEMMA ResetStep ==
    ASSUME NEW cfg, Sound(cfg), NEW s, NEW p, p.verb = "apply", p.on \in Ids, NEW ab,
           NEW ls \in Seq(Lines(p, ab)), ls # <<>>, ~Rejects(cfg, s, Head(ls)),
           Reset(ls, p.on, p.want)
    PROVE  Open(Applied(cfg, s, Head(ls)), Tail(ls), p.on, p.want)
<1> DEFINE l == Head(ls)
           o == p.on
           new == Applied(cfg, s, l)
<1>1. l \in AllLines /\ l.do = "drop process" /\ ~Rejects(cfg, s, l)
  BY HeadAndTail DEF Lines, Reset
<1>2. Tail(ls) \in Seq(Lines(p, ab)) /\ Tail(ls) # <<>>
  BY HeadAndTail DEF Reset
<1>3. Head(Tail(ls)) \in Lines(p, ab)
  BY <1>2, HeadAndTail
<1>4. Head(Tail(ls)).do = "router" /\ o = Global /\ o.kind \in Kinds
  BY <1>3, BgpAssumption DEF Reset, Lines, Typed
<1> HIDE DEF l
<1>5. new = Without(cfg, Neighbors \cup {Global})
  BY <1>1, AppliedCases
<1>6. new[o] = Absent
  BY <1>4, <1>5, WithoutAll
<1> HIDE DEF new
<1>7. Now(new, o) = Blank(o) /\ \A a \in Attributes(o.kind) : Blank(o)[a] = None
  BY <1>6, BlankIsObject DEF Now
<1>8. QED
  BY <1>2, <1>4, <1>6, <1>7 DEF Open, Reset, new, l

\* The line that is sure to be rejected is still to come when another was not.
LEMMA DoomedStep ==
    ASSUME NEW cfg, NEW s, NEW L, NEW ls \in Seq(L), ls # <<>>, ~Rejects(cfg, s, Head(ls)),
           Doomed(ls)
    PROVE  Doomed(Tail(ls))
<1>1. PICK n \in 1..Len(ls) : ls[n].do \in {"malformed", "unbuilt"}
  BY DEF Doomed
<1>2. n # 1
  BY <1>1, HeadAndTail DEF Rejects, Reported
<1>3. n - 1 \in 1..Len(Tail(ls)) /\ Tail(ls)[n - 1] = ls[n]
  BY <1>2, HeadAndTail
<1>4. QED
  BY <1>1, <1>3 DEF Doomed

\* An accepted line brings the object nearer to what it is to be.
LEMMA LeadsStep ==
    ASSUME NEW cfg, Sound(cfg), NEW s, NEW p, p.verb = "apply", p.on \in Ids, NEW ab,
           NEW ls \in Seq(Lines(p, ab)), ls # <<>>, ~Rejects(cfg, s, Head(ls)),
           Leads(cfg, ls, p.on, p.want)
    PROVE  Leads(Applied(cfg, s, Head(ls)), Tail(ls), p.on, p.want)
<1>1. CASE Due(cfg, ls, p.on, p.want)
  BY <1>1, DueStep DEF Leads
<1>2. CASE Open(cfg, ls, p.on, p.want)
  BY <1>2, OpenStep DEF Leads
<1>3. CASE Reset(ls, p.on, p.want)
  BY <1>3, ResetStep DEF Leads
<1>4. CASE Doomed(ls)
  BY <1>4, DoomedStep DEF Leads
<1>5. QED
  BY <1>1, <1>2, <1>3, <1>4 DEF Leads

\* With no line left it is there.
LEMMA LeadsDone ==
    ASSUME NEW cfg, Sound(cfg), NEW o \in Ids, NEW w \in Objects(o.kind), Leads(cfg, <<>>, o, w)
    PROVE  cfg[o] = w
<1>1. Due(cfg, <<>>, o, w)
  BY DEF Leads, Open, Reset, Doomed
<1>2. cfg[o] # Absent
  BY <1>1 DEF Due, Makes
<1>3. Now(cfg, o) = cfg[o] /\ cfg[o] \in Objects(o.kind)
  BY <1>2 DEF Now, Sound
<1>4. \A a \in Attributes(o.kind) : cfg[o][a] = w[a]
  BY <1>1, <1>3 DEF Due, Covers
<1>5. QED
  BY <1>3, <1>4 DEF Objects

\* i is gone, or one of the lines removes it.
Removes(l, i) ==
    \/ l.do = "drop" /\ l.on = i
    \/ l.do = "drop name" /\ i \in SameName(l.on)
Clears(cfg, ls, i) == cfg[i] = Absent \/ \E n \in 1..Len(ls) : Removes(ls[n], i)

\* An object to be removed is gone or its removal is still to come.
LEMMA ClearsStep ==
    ASSUME NEW cfg, Sound(cfg), NEW s, NEW p, p.verb = "remove", NEW ab,
           NEW ls \in Seq(Lines(p, ab)), ls # <<>>, ~Rejects(cfg, s, Head(ls)),
           NEW i \in Ids, i.kind # "bgp", Clears(cfg, ls, i)
    PROVE  Clears(Applied(cfg, s, Head(ls)), Tail(ls), i)
<1> DEFINE l == Head(ls)
           new == Applied(cfg, s, l)
<1>0. l \in Lines(p, ab) /\ ~Rejects(cfg, s, l)
  BY HeadAndTail
<1>1. /\ l \in AllLines /\ Typed(l) /\ l.do \in {"router", "drop", "drop name"}
      /\ ~Rejects(cfg, s, l)
  BY <1>0 DEF Lines, Toward
<1>2. (\E n \in 1..Len(ls) : Removes(ls[n], i)) =>
        Removes(l, i) \/ \E n \in 1..Len(Tail(ls)) : Removes(Tail(ls)[n], i)
  BY HeadAndTail
<1> HIDE DEF l
<1>3. CASE l.do = "router"
  <2>1. l.on = Global /\ i # Global /\ l.attr \in Attributes(l.on.kind)
    BY <1>1, <1>3, GlobalIsOne DEF Typed, Attributes
  <2>2. Put(cfg, l)[i] = cfg[i]
    BY <1>1, <2>1, PutElsewhere
  <2>3. new = cfg \/ new = Put(cfg, l)
    BY <1>1, <1>3, AppliedCases
  <2>4. new[i] = cfg[i] /\ ~Removes(l, i)
    BY <1>3, <2>2, <2>3 DEF Removes
  <2> HIDE DEF new
  <2>5. QED
    BY <1>2, <2>4 DEF Clears, new, l
<1>4. CASE l.do \in {"drop", "drop name"}
  <2>1. /\ l.do = "drop" => new = Without(cfg, {l.on})
        /\ l.do = "drop name" => new = Without(cfg, SameName(l.on))
    BY <1>1, <1>4, AppliedCases
  <2>2. /\ Without(cfg, {l.on})[i] = IF i \in {l.on} THEN Absent ELSE cfg[i]
        /\ Without(cfg, SameName(l.on))[i] = IF i \in SameName(l.on) THEN Absent ELSE cfg[i]
    BY WithoutAll
  <2>3. (cfg[i] = Absent \/ Removes(l, i)) => new[i] = Absent
    BY <1>4, <2>1, <2>2 DEF Removes
  <2> HIDE DEF new
  <2>4. QED
    BY <1>2, <2>3 DEF Clears, new, l
<1>5. QED
  BY <1>1, <1>3, <1>4

\* No line but a removal disturbs an object that is as wanted.
LEMMA WantedStays ==
    ASSUME NEW cfg, Sound(cfg), NEW s, NEW p, p.verb = "apply", p.on \in Ids,
           p.want \in Objects(p.on.kind), NEW ab, NEW l \in Lines(p, ab), ~IsDrop(l),
           cfg[p.on] = p.want
    PROVE  Applied(cfg, s, l)[p.on] = p.want
<1>1. l \in AllLines /\ Typed(l) /\ Toward(l, p) /\ p.on.kind \in Kinds
  BY BgpAssumption DEF Lines
<1>2. cfg[p.on] # Absent
  BY <1>1, ObjectsExist
<1>3. CASE Rejects(cfg, s, l)
  BY <1>1, <1>3, AppliedCases
<1>4. CASE ~Rejects(cfg, s, l) /\ l.do = "set"
  <2>1. l.on = p.on /\ l.val = p.want[l.attr] /\ l.attr \in Attributes(l.on.kind)
    BY <1>1, <1>4 DEF Toward, Typed
  <2>2. Put(cfg, l)[l.on] = [cfg[l.on] EXCEPT ![l.attr] = l.val]
    BY <1>2, <2>1 DEF Put, Sound
  <2>3. Put(cfg, l)[p.on] = [p.want EXCEPT ![l.attr] = p.want[l.attr]]
    BY <2>1, <2>2
  <2>4. Put(cfg, l)[p.on] = p.want
    BY <2>1, <2>3 DEF Objects
  <2>5. QED
    BY <1>1, <1>4, <2>4, AppliedCases
<1>5. CASE ~Rejects(cfg, s, l) /\ l.do = "enter"
  <2>1. l.on = p.on /\ l.val = p.want.action
    BY <1>1, <1>5 DEF Toward
  <2>2. Enter(cfg, l) = cfg
    BY <1>2, <2>1 DEF Enter
  <2>3. QED
    BY <1>1, <1>5, <2>2, AppliedCases
<1>6. CASE ~Rejects(cfg, s, l) /\ l.do = "router"
  <2>1. l.on = Global /\ l.attr \in Attributes(l.on.kind)
    BY <1>1, <1>6, GlobalIsOne DEF Typed, Attributes
  <2>2. CASE cfg[Global] # Absent
    BY <1>1, <1>6, <2>2, AppliedCases
  <2>3. CASE cfg[Global] = Absent
    <3>1. p.on # l.on
      BY <1>2, <2>1, <2>3
    <3>2. Put(cfg, l)[p.on] = cfg[p.on]
      BY <1>1, <2>1, <3>1, PutElsewhere
    <3>3. QED
      BY <1>1, <1>6, <2>3, <3>2, AppliedCases
  <2>4. QED
    BY <2>2, <2>3
<1>7. QED
  BY <1>1, <1>3, <1>4, <1>5, <1>6, AppliedCases DEF AllLines, IsDrop
-----------------------------------------------------------------------------
(* Sessions and operations. *)

Sessions(p, ab) == [as : Values \cup {None}, lines : Seq(Lines(p, ab)), optional : BOOLEAN]

\* An operation p about ab.
OpOK(p, ab) ==
    /\ p.verb \in {"apply", "remove"} /\ p.on \in Ids /\ ab \subseteq Ids /\ p.on \in ab
    /\ p.verb = "apply" => p.want \in Objects(p.on.kind)
    /\ p.verb = "apply" /\ p.on.kind = "map" => p.want.tag \notin Extras
    /\ p.verb = "remove" => p.want = Absent /\ p.on.kind # "bgp"

\* Nobody but an operation about the process makes it.
ProcessKnown(cfg, p, ab) ==
    p.on.kind \in {"neighbor", "bgp"} => Global \in ab \/ cfg[Global] # Absent

\* The session after the first puts the one entry there is.
PutsEntry(p, s) ==
    /\ p.verb = "apply" /\ p.on.kind \in {"prefix", "community"} /\ ~s.optional
    /\ s.lines \in {<<Line("set", p.on, "entry", p.want.entry)>>,
                    <<Line("unbuilt", p.on, "none", None)>>}

Followed(p, ss) ==
    /\ Len(ss) \in {0, 1, 2}
    /\ Len(ss) = 1 => ~ss[1].optional
    /\ Len(ss) = 2 => PutsEntry(p, ss[2])

Reached(cfg, p, ab) ==
    IF p.verb = "apply" THEN cfg[p.on] = p.want
    ELSE \A i \in ab : i.kind = p.on.kind => cfg[i] = Absent

WillReach(cfg, ls, p, ab) ==
    IF p.verb = "apply" THEN Leads(cfg, ls, p.on, p.want)
    ELSE \A i \in ab : i.kind = p.on.kind => Clears(cfg, ls, i)

\* Only what is not as wanted is removed, and that comes first.
DropsFirst(cfg, ls, p) ==
    p.verb = "apply" /\ ~p.blind /\ ~p.reworded =>
      \A n \in 1..Len(ls) : IsDrop(ls[n]) => n = 1 /\ cfg[p.on] # p.want

\* A plan made from cfg: dr if its success is known not to mean much.
PlanOK(cfg, plan, p, ab, dr) ==
    /\ plan.todo \in Seq(Sessions(p, ab)) /\ Followed(p, plan.todo)
    /\ plan.refused => plan.todo = <<>>
    /\ ~plan.refused /\ ~dr /\ plan.todo = <<>> => Reached(cfg, p, ab)
    /\ ~dr /\ Len(plan.todo) = 1 => WillReach(cfg, plan.todo[1].lines, p, ab)
    /\ plan.todo # <<>> => DropsFirst(cfg, plan.todo[1].lines, p)

\* What is asked for is not its absence.
LEMMA WantedExists ==
    ASSUME NEW p, NEW ab, OpOK(p, ab), p.verb = "apply"
    PROVE  p.want # Absent
<1>1. p.on.kind \in Kinds /\ p.want \in Objects(p.on.kind)
  BY BgpAssumption DEF OpOK
<1>2. QED
  BY <1>1, ObjectsExist

\* Each line that is sent is one of its operation.
LEMMA SetLine ==
    ASSUME NEW p, NEW ab, OpOK(p, ab), p.verb = "apply", NEW a \in Attributes(p.on.kind)
    PROVE  Line("set", p.on, a, p.want[a]) \in Lines(p, ab)
<1>1. p.want[a] \in Values \cup {None} /\ p.on.kind \in Kinds
  BY BgpAssumption DEF OpOK, Objects
<1>2. Line("set", p.on, a, p.want[a]) \in AllLines
  BY <1>1 DEF Line, AllLines, OpOK
<1>3. QED
  BY <1>2 DEF Line, Lines, Typed, InScope, Toward, OpOK

\* The lines of an operation, by kind.
LEMMA EnterLine ==
    ASSUME NEW p, NEW ab, OpOK(p, ab), p.verb = "apply", p.on.kind = "map"
    PROVE  Line("enter", p.on, "action", p.want.action) \in Lines(p, ab)
<1>1. "action" \in Attributes("map") /\ "map" \in Kinds
  BY DEF Attributes, Kinds
<1>2. p.want.action \in Values \cup {None}
  BY <1>1 DEF OpOK, Objects
<1>3. Line("enter", p.on, "action", p.want.action) \in AllLines
  BY <1>1, <1>2 DEF Line, AllLines, OpOK
<1>4. QED
  BY <1>3 DEF Line, Lines, Typed, InScope, Toward, OpOK

\* Communities that are none.
LEMMA MalformedLine ==
    ASSUME NEW p, NEW ab, OpOK(p, ab), p.on.kind = "map", p.verb = "apply",
           NEW v \in Values \cup {None}
    PROVE  Line("malformed", p.on, "tag", v) \in Lines(p, ab)
<1>1. "tag" \in Attributes("map") /\ "map" \in Kinds
  BY DEF Attributes, Kinds
<1>2. Line("malformed", p.on, "tag", v) \in AllLines
  BY <1>1 DEF Line, AllLines, OpOK
<1>3. QED
  BY <1>2 DEF Line, Lines, Typed, InScope, Toward, OpOK

\* The process by its AS.
LEMMA RouterLine ==
    ASSUME NEW p, NEW ab, OpOK(p, ab), p.on.kind \in {"neighbor", "bgp"},
           NEW v \in Values \cup {None}, p.verb = "apply" /\ p.on = Global => v = p.want.as
    PROVE  Line("router", Global, "as", v) \in Lines(p, ab)
<1>1. "as" \in Attributes("bgp") /\ "bgp" \in Kinds
  BY DEF Attributes, Kinds
<1>2. Line("router", Global, "as", v) \in AllLines
  BY <1>1, GlobalIsOne DEF Line, AllLines, OpOK
<1>3. QED
  BY <1>2 DEF Line, Lines, Typed, InScope, Toward, OpOK

\* Removals carry no value.
LEMMA PlainLine ==
    ASSUME NEW o \in Ids, NEW do \in {"drop", "drop name", "drop process", "unbuilt"}
    PROVE  Line(do, o, "none", None) \in AllLines
BY DEF Line, AllLines

\* The removal of an object or of its name.
LEMMA DropLine ==
    ASSUME NEW p, NEW ab, OpOK(p, ab), p.on.kind # "bgp"
    PROVE  /\ Line("drop", p.on, "none", None) \in Lines(p, ab)
           /\ SameName(p.on) \subseteq ab => Line("drop name", p.on, "none", None) \in Lines(p, ab)
<1>1. /\ Line("drop", p.on, "none", None) \in AllLines
      /\ Line("drop name", p.on, "none", None) \in AllLines
  BY PlainLine DEF OpOK
<1>2. QED
  BY <1>1 DEF Line, Lines, Typed, InScope, Toward, OpOK

\* The removal of the process with its neighbors.
LEMMA DropProcessLine ==
    ASSUME NEW p, NEW ab, OpOK(p, ab), p.verb = "apply", p.on = Global,
           Neighbors \cup {Global} \subseteq ab
    PROVE  Line("drop process", Global, "none", None) \in Lines(p, ab)
<1>1. Line("drop process", Global, "none", None) \in AllLines
  BY GlobalIsOne, PlainLine
<1>2. QED
  BY <1>1 DEF Line, Lines, Typed, InScope, Toward, OpOK

\* Lines one after the other.
LEMMA ConcatLines ==
    ASSUME NEW L, NEW s \in Seq(L), NEW t \in Seq(L), NEW o
    PROVE  /\ s \o t \in Seq(L)
           /\ OnlySets(s, o) /\ OnlySets(t, o) => OnlySets(s \o t, o)
           /\ \A a : Covers(s, o, a) \/ Covers(t, o, a) => Covers(s \o t, o, a)
           /\ Doomed(s) \/ Doomed(t) => Doomed(s \o t)
<1>1. /\ s \o t \in Seq(L) /\ Len(s \o t) = Len(s) + Len(t) /\ Len(s) \in Nat /\ Len(t) \in Nat
      /\ \A n \in 1..Len(s) : (s \o t)[n] = s[n]
      /\ \A n \in 1..Len(t) : (s \o t)[Len(s) + n] = t[n]
  OBVIOUS
<1> DEFINE u == s \o t
<1> HIDE DEF u
<1>2. /\ \A n \in 1..Len(s) : n \in 1..Len(u) /\ u[n] = s[n]
      /\ \A n \in 1..Len(t) : Len(s) + n \in 1..Len(u) /\ u[Len(s) + n] = t[n]
  BY <1>1 DEF u
<1>3. \A n \in 1..Len(u) : \/ n \in 1..Len(s) /\ u[n] = s[n]
                           \/ n - Len(s) \in 1..Len(t) /\ u[n] = t[n - Len(s)]
  <2> SUFFICES ASSUME NEW n \in 1..Len(u), n \notin 1..Len(s)
               PROVE  n - Len(s) \in 1..Len(t) /\ u[n] = t[n - Len(s)]
    BY <1>2
  <2>1. n - Len(s) \in 1..Len(t) /\ Len(s) + (n - Len(s)) = n
    BY <1>1 DEF u
  <2>2. QED
    BY <1>2, <2>1
<1>4. OnlySets(s, o) /\ OnlySets(t, o) => OnlySets(u, o)
  BY <1>3 DEF OnlySets
<1>5. ASSUME NEW a, Covers(s, o, a) \/ Covers(t, o, a) PROVE Covers(u, o, a)
  BY <1>2, <1>5 DEF Covers
<1>6. Doomed(s) \/ Doomed(t) => Doomed(u)
  BY <1>2 DEF Doomed
<1>7. QED
  BY <1>1, <1>4, <1>5, <1>6 DEF u

\* A line before others.
LEMMA ConsLines ==
    ASSUME NEW L, NEW x \in L, NEW t \in Seq(L)
    PROVE  /\ <<x>> \o t \in Seq(L) /\ <<x>> \o t # <<>>
           /\ Head(<<x>> \o t) = x /\ Tail(<<x>> \o t) = t
           /\ Len(<<x>> \o t) = Len(t) + 1 /\ (<<x>> \o t)[1] = x
           /\ \A n \in 1..Len(t) : (<<x>> \o t)[n + 1] = t[n]
           /\ \A n \in 1..(Len(t) + 1) : n # 1 => (<<x>> \o t)[n] = t[n - 1]
OBVIOUS

\* The lines of Sets, for attributes of the object of the operation.
LEMMA SetsCover ==
    ASSUME NEW p, NEW ab, OpOK(p, ab), p.verb = "apply", NEW want,
           NEW attrs \in SUBSET Attributes(p.on.kind), \A a \in attrs : want[a] = p.want[a]
    PROVE  /\ Sets(p.on, attrs, want) \in Seq(Lines(p, ab))
           /\ OnlySets(Sets(p.on, attrs, want), p.on)
           /\ \A a \in attrs : Covers(Sets(p.on, attrs, want), p.on, a)
           /\ \A n \in 1..Len(Sets(p.on, attrs, want)) : ~IsDrop(Sets(p.on, attrs, want)[n])
           /\ Sets(p.on, attrs, want) = <<>> => attrs = {}
<1> DEFINE ls == Sets(p.on, attrs, want)
<1>1. \A a \in attrs : Line("set", p.on, a, want[a]) \in Lines(p, ab)
  BY SetLine
<1>2. p.on \in Ids
  BY DEF OpOK
<1>3. /\ ls \in Seq(Lines(p, ab))
      /\ \A n \in 1..Len(ls) : \E a \in attrs : ls[n] = Line("set", p.on, a, want[a])
      /\ \A a \in attrs : \E n \in 1..Len(ls) : ls[n] = Line("set", p.on, a, want[a])
  BY <1>1, <1>2, SetsLines
<1> HIDE DEF ls
<1>0. \A a : LET x == Line("set", p.on, a, want[a]) IN x.do = "set" /\ x.on = p.on /\ x.attr = a
  BY DEF Line
<1>4. ASSUME NEW n \in 1..Len(ls) PROVE ls[n].do = "set"
  BY <1>0, <1>3
<1>5. ASSUME NEW a \in attrs PROVE Covers(ls, p.on, a)
  <2>1. PICK n \in 1..Len(ls) : ls[n] = Line("set", p.on, a, want[a])
    BY <1>3
  <2>2. QED
    BY <1>0, <2>1 DEF Covers
<1>6. ls = <<>> => attrs = {}
  BY <1>3
<1>7. QED
  BY <1>3, <1>4, <1>5, <1>6 DEF OnlySets, IsDrop, ls
-----------------------------------------------------------------------------
(* Plans. *)

AnOp(verb, r, ok) ==
    [verb |-> verb, on |-> r.on, blind |-> Failed(ok) # {},
     reworded |-> verb = "apply" /\ r.on.kind \in {"prefix", "community"}
                  /\ r.want.entry \in DOMAIN Reworded,
     want |-> IF verb = "remove" THEN Absent ELSE Content(r.on, r.want)]

\* A value is shown as one, and no communities come to stand for something else.
LEMMA ShownIsValue ==
    ASSUME NEW v \in Values \cup {None, Unset}
    PROVE  /\ Shown(v) \in Values \cup {None}
           /\ v \in {None, Unset} => Shown(v) = None
           /\ v \notin Extras => Shown(v) \notin Extras
           /\ v \in Extras /\ v # Unset => Shown(v) = v
<1>1. CASE v = Unset
  BY <1>1, BgpAssumption DEF Shown
<1>2. CASE v # Unset /\ v \in DOMAIN Reworded
  <2>1. Shown(v) = Reworded[v]
    BY <1>2 DEF Shown
  <2>2. QED
    BY <1>2, <2>1, BgpAssumption
<1>3. CASE v # Unset /\ v \notin DOMAIN Reworded
  <2>1. Shown(v) = v
    BY <1>3 DEF Shown
  <2>2. QED
    BY <1>3, <2>1
<1>4. QED
  BY <1>1, <1>2, <1>3

\* What is asked for is an object, shown as it is sent but for the tag of a route map.
LEMMA ContentIsObject ==
    ASSUME NEW r \in Requests
    PROVE  /\ Content(r.on, r.want) \in Objects(r.on.kind)
           /\ r.on.kind # "map" =>
                /\ r.want \in [Attributes(r.on.kind) -> Values \cup {None, Unset}]
                /\ \A a \in Attributes(r.on.kind) : Content(r.on, r.want)[a] = Shown(r.want[a])
           /\ r.on.kind = "map" =>
                LET w == Content(r.on, r.want) IN
                /\ r.want \in [{"action", "match", "pref", "tag"} -> Values \cup {None}]
                /\ w.tag \notin Extras
                /\ \A a \in {"action", "match", "pref"} : w[a] = Shown(r.want[a])
                /\ w.tag = IF r.want.tag \in Extras THEN None ELSE Shown(r.want.tag)
                /\ w.extra = IF r.want.tag \in Extras THEN r.want.tag ELSE None
<1>1. r.on \in Ids /\ r.want \in Wants(r.on.kind)
  BY BgpAssumption
<1>2. CASE r.on.kind # "map"
  <2>1. r.want \in [Attributes(r.on.kind) -> Values \cup {None, Unset}]
    <3>1. Attributes(r.on.kind) \ {} = Attributes(r.on.kind)
      OBVIOUS
    <3>2. QED
      BY <1>1, <1>2, <3>1 DEF Wants
  <2>2. Content(r.on, r.want) = [a \in Attributes(r.on.kind) |-> Shown(r.want[a])]
    BY <1>2 DEF Content
  <2>3. \A a \in Attributes(r.on.kind) : Shown(r.want[a]) \in Values \cup {None}
    BY <2>1, ShownIsValue
  <2>4. QED
    BY <1>2, <2>1, <2>2, <2>3 DEF Objects
<1>3. CASE r.on.kind = "map"
  <2>1. r.want \in [{"action", "match", "pref", "tag"} -> Values \cup {None}]
    <3>1. Attributes("map") \ {"extra"} = {"action", "match", "pref", "tag"}
      BY DEF Attributes
    <3>2. r.want \in [{"action", "match", "pref", "tag"} -> Values \cup {None, Unset}]
      BY <1>1, <1>3, <3>1 DEF Wants
    <3>3. \A a \in {"action", "match", "pref", "tag"} : r.want[a] # Unset
      BY <3>2, BgpAssumption DEF Optional
    <3>4. QED
      BY <3>2, <3>3
  <2>2. Content(r.on, r.want) =
          [a \in {"action", "match", "pref", "tag", "extra"} |->
             CASE a = "tag"   -> IF r.want.tag \in Extras THEN None ELSE Shown(r.want.tag)
               [] a = "extra" -> IF r.want.tag \in Extras THEN r.want.tag ELSE None
               [] OTHER       -> Shown(r.want[a])]
    BY <1>3 DEF Content, Attributes
  <2>3. /\ \A a \in {"action", "match", "pref"} : Content(r.on, r.want)[a] = Shown(r.want[a])
        /\ Content(r.on, r.want).tag = IF r.want.tag \in Extras THEN None ELSE Shown(r.want.tag)
        /\ Content(r.on, r.want).extra = IF r.want.tag \in Extras THEN r.want.tag ELSE None
    BY <2>2
  <2>4. /\ \A a \in {"action", "match", "pref", "tag"} : Shown(r.want[a]) \in Values \cup {None}
        /\ r.want.tag \notin Extras => Shown(r.want.tag) \notin Extras
    BY <2>1, ShownIsValue
  <2>5. \A a \in {"action", "match", "pref", "tag", "extra"} :
          Content(r.on, r.want)[a] \in Values \cup {None}
    BY <2>1, <2>3, <2>4
  <2>6. Content(r.on, r.want) \in [{"action", "match", "pref", "tag", "extra"} -> Values \cup {None}]
    BY <2>2, <2>5
  <2>7. Content(r.on, r.want) \in Objects("map")
    BY <2>6 DEF Objects, Attributes
  <2>8. Content(r.on, r.want).tag \notin Extras
    BY <2>3, <2>4, BgpAssumption
  <2>9. QED
    BY <1>3, <2>1, <2>3, <2>7, <2>8
<1>4. QED
  BY <1>2, <1>3

\* What Begin notes of a request is an operation.
LEMMA ApplyOK ==
    ASSUME NEW r \in Requests, NEW ok
    PROVE  /\ OpOK(AnOp("apply", r, ok), Scope("apply", r, ok))
           /\ ProcessKnown(running, AnOp("apply", r, ok), Scope("apply", r, ok))
           /\ AnOp("apply", r, ok).verb = "apply" /\ AnOp("apply", r, ok).on = r.on
           /\ AnOp("apply", r, ok).want = Content(r.on, r.want)
           /\ ~AnOp("apply", r, ok).blind => Failed(ok) = {}
<1> DEFINE p == AnOp("apply", r, ok)
           ab == Scope("apply", r, ok)
<1>1. r.on \in Ids
  BY BgpAssumption
<1>2. /\ p.verb = "apply" /\ p.on = r.on /\ p.want = Content(r.on, r.want)
      /\ ~p.blind => Failed(ok) = {}
  BY DEF AnOp
<1>3. /\ ab \subseteq Ids /\ r.on \in ab
      /\ r.on.kind = "neighbor" => Global \in ab \/ running[Global] # Absent
  BY <1>1, GlobalIsOne DEF Scope, SameName, Neighbors, Present
<1>4. r.on.kind = "bgp" => Global \in ab
  BY <1>1, <1>3, GlobalIsOne
<1> HIDE DEF p, ab
<1>5. OpOK(p, ab)
  BY <1>1, <1>2, <1>3, ContentIsObject DEF OpOK
<1>6. ProcessKnown(running, p, ab)
  BY <1>2, <1>3, <1>4 DEF ProcessKnown
<1>7. QED
  BY <1>2, <1>5, <1>6 DEF p, ab

\* What it notes of a removal is one too.
LEMMA RemoveOK ==
    ASSUME NEW o \in Ids, o.kind # "bgp", NEW r, r.on = o, NEW ok
    PROVE  /\ OpOK(AnOp("remove", r, ok), Scope("remove", r, ok))
           /\ ProcessKnown(running, AnOp("remove", r, ok), Scope("remove", r, ok))
           /\ AnOp("remove", r, ok).verb = "remove" /\ AnOp("remove", r, ok).on = o
<1> DEFINE p == AnOp("remove", r, ok)
           ab == Scope("remove", r, ok)
<1>1. p.verb = "remove" /\ p.on = o /\ p.want = Absent
  BY DEF AnOp
<1>2. /\ ab \subseteq Ids /\ o \in ab
      /\ o.kind = "neighbor" => Global \in ab \/ running[Global] # Absent
  BY GlobalIsOne DEF Scope, SameName, Present
<1> HIDE DEF p, ab
<1>3. OpOK(p, ab) /\ ProcessKnown(running, p, ab)
  BY <1>1, <1>2 DEF OpOK, ProcessKnown
<1>4. QED
  BY <1>1, <1>3 DEF p, ab

\* An operation that is not blind has read all it tried.
LEMMA ReadsTyped ==
    ASSUME NEW n \in Nat, NEW ok \in Reads(n)
    PROVE  /\ \A i \in 1..n : ok[i] \in BOOLEAN
           /\ Failed(ok) = {} => \A i \in 1..n : ok[i]
BY DEF Reads, Failed

\* A line is a session.
LEMMA OneLine == ASSUME NEW L, NEW x \in L PROVE <<x>> \in Seq(L)
OBVIOUS

\* A session of lines of the operation is one of its sessions.
LEMMA SessionsMade ==
    ASSUME NEW p, NEW ab, NEW ls \in Seq(Lines(p, ab)), NEW as \in Values \cup {None},
           NEW opt \in BOOLEAN
    PROVE  [as |-> as, lines |-> ls, optional |-> opt] \in Sessions(p, ab)
BY DEF Sessions

\* A refusal is a plan, and so is doing nothing when there is nothing to do.
LEMMA NoPlan ==
    ASSUME NEW cfg, NEW p, NEW ab, NEW dr
    PROVE  /\ PlanOK(cfg, Refuse, p, ab, dr)
           /\ dr \/ Reached(cfg, p, ab) => PlanOK(cfg, Go(<<>>), p, ab, dr)
BY DEF PlanOK, Refuse, Go, Followed

\* So is one session.
LEMMA OneSession ==
    ASSUME NEW cfg, NEW p, NEW ab, NEW dr, NEW ls \in Seq(Lines(p, ab)),
           NEW as \in Values \cup {None}, dr \/ WillReach(cfg, ls, p, ab), DropsFirst(cfg, ls, p)
    PROVE  PlanOK(cfg, Go(<<[as |-> as, lines |-> ls, optional |-> FALSE]>>), p, ab, dr)
<1> DEFINE x == [as |-> as, lines |-> ls, optional |-> FALSE]
<1>1. x \in Sessions(p, ab) /\ x.lines = ls /\ ~x.optional
  BY SessionsMade
<1> HIDE DEF x
<1>2. <<x>> \in Seq(Sessions(p, ab)) /\ Len(<<x>>) = 1 /\ <<x>>[1] = x /\ <<x>> # <<>>
  BY <1>1
<1> DEFINE plan == Go(<<x>>)
<1>3. plan.todo = <<x>> /\ ~plan.refused
  BY DEF Go
<1> HIDE DEF plan
<1>4. /\ plan.todo \in Seq(Sessions(p, ab)) /\ Len(plan.todo) = 1
      /\ plan.todo[1].lines = ls /\ ~plan.todo[1].optional /\ plan.todo # <<>>
  BY <1>1, <1>2, <1>3
<1>5. PlanOK(cfg, plan, p, ab, dr)
  BY <1>3, <1>4 DEF PlanOK, Followed
<1>6. QED
  BY <1>5 DEF plan, x

\* And a removal before the one entry is put.
LEMMA TwoSessions ==
    ASSUME NEW cfg, NEW p, NEW ab, NEW dr, NEW x \in Sessions(p, ab), NEW y \in Sessions(p, ab),
           PutsEntry(p, y), DropsFirst(cfg, x.lines, p)
    PROVE  PlanOK(cfg, Go(<<x, y>>), p, ab, dr)
<1>1. /\ <<x, y>> \in Seq(Sessions(p, ab)) /\ Len(<<x, y>>) = 2
      /\ <<x, y>>[1] = x /\ <<x, y>>[2] = y
  OBVIOUS
<1> DEFINE plan == Go(<<x, y>>)
<1>2. plan.todo = <<x, y>> /\ ~plan.refused
  BY DEF Go
<1> HIDE DEF plan
<1>3. /\ plan.todo \in Seq(Sessions(p, ab)) /\ Len(plan.todo) = 2
      /\ plan.todo[1].lines = x.lines /\ plan.todo[2] = y /\ plan.todo # <<>>
  BY <1>1, <1>2
<1>4. PlanOK(cfg, plan, p, ab, dr)
  BY <1>2, <1>3 DEF PlanOK, Followed
<1>5. QED
  BY <1>4 DEF plan
-----------------------------------------------------------------------------
(* Entries of prefix and of community lists. *)

\* To put the one attribute is to bring the object to what is wanted.
LEMMA EntryDue ==
    ASSUME NEW cfg, NEW o, o.kind \in {"prefix", "community"}, NEW w, NEW l,
           l.do = "set", l.on = o, l.attr = "entry"
    PROVE  Due(cfg, <<l>>, o, w)
<1>1. Attributes(o.kind) = {"entry"}
  BY DEF Attributes
<1>2. Len(<<l>>) = 1 /\ <<l>>[1] = l
  OBVIOUS
<1>3. OnlySets(<<l>>, o) /\ Covers(<<l>>, o, "entry")
  BY <1>2 DEF OnlySets, Covers
<1>4. Makes(<<l>>, o)
  BY <1>2 DEF Makes
<1>5. QED
  BY <1>1, <1>3, <1>4 DEF Due

\* The session that puts an entry leads to what was asked, or is sure to be rejected.
LEMMA PutsEntryReaches ==
    ASSUME NEW cfg, NEW p, NEW ab, NEW s, PutsEntry(p, s)
    PROVE  WillReach(cfg, s.lines, p, ab) /\ DropsFirst(cfg, s.lines, p)
<1>1. PICK l \in {Line("set", p.on, "entry", p.want.entry), Line("unbuilt", p.on, "none", None)} :
        s.lines = <<l>>
  BY DEF PutsEntry
<1>2. /\ (l.do = "set" /\ l.on = p.on /\ l.attr = "entry") \/ l.do = "unbuilt"
      /\ p.verb = "apply" /\ p.on.kind \in {"prefix", "community"}
  BY DEF PutsEntry, Line
<1>3. Len(<<l>>) = 1 /\ <<l>>[1] = l /\ ~IsDrop(l)
  BY <1>2 DEF IsDrop
<1>4. Due(cfg, <<l>>, p.on, p.want) \/ Doomed(<<l>>)
  BY <1>2, <1>3, EntryDue DEF Doomed
<1>5. QED
  BY <1>1, <1>2, <1>3, <1>4 DEF WillReach, Leads, DropsFirst

\* The sessions that put and remove an entry of a list.
LEMMA EntrySessions ==
    ASSUME NEW p, NEW ab, OpOK(p, ab), p.verb = "apply", p.on.kind \in {"prefix", "community"},
           NEW r, r.on = p.on, p.want = Content(r.on, r.want)
    PROVE  /\ PutEntry(r) = [as |-> None, lines |-> PutEntry(r).lines, optional |-> FALSE]
           /\ PutEntry(r).lines \in Seq(Lines(p, ab))
           /\ PutEntry(r) \in Sessions(p, ab) /\ PutsEntry(p, PutEntry(r))
           /\ Session(Drop(p.on)) \in Sessions(p, ab) /\ Try(Drop(p.on)) \in Sessions(p, ab)
           /\ SameName(p.on) \subseteq ab => DropName(p.on) \in Sessions(p, ab)
<1> DEFINE x == Line("set", p.on, "entry", p.want.entry)
           u == Line("unbuilt", p.on, "none", None)
<1>1. "entry" \in Attributes(p.on.kind) /\ p.on \in Ids
  BY DEF Attributes, OpOK
<1>2. Sets(r.on, {"entry"}, Content(r.on, r.want)) = <<x>>
  BY <1>1, SetsOne
<1>3. PICK l \in {x, u} : PutEntry(r) = [as |-> None, lines |-> <<l>>, optional |-> FALSE]
  BY <1>2 DEF PutEntry, Session
<1>4. x \in Lines(p, ab) /\ u \in Lines(p, ab)
  <2>1. x \in Lines(p, ab)
    BY <1>1, SetLine
  <2>2. u \in AllLines
    BY <1>1, PlainLine
  <2>3. u \in Lines(p, ab)
    BY <2>2 DEF Line, Lines, Typed, InScope, Toward
  <2>4. QED
    BY <2>1, <2>3
<1>5. /\ Line("drop", p.on, "none", None) \in Lines(p, ab)
      /\ SameName(p.on) \subseteq ab => Line("drop name", p.on, "none", None) \in Lines(p, ab)
  BY DropLine
<1>6. Drop(p.on) \in Seq(Lines(p, ab))
  BY <1>5, OneLine DEF Drop
<1>7. Session(Drop(p.on)) \in Sessions(p, ab) /\ Try(Drop(p.on)) \in Sessions(p, ab)
  BY <1>6, SessionsMade DEF Session, Try
<1>8. SameName(p.on) \subseteq ab => DropName(p.on) \in Sessions(p, ab)
  <2> SUFFICES ASSUME SameName(p.on) \subseteq ab PROVE DropName(p.on) \in Sessions(p, ab)
    OBVIOUS
  <2>1. <<Line("drop name", p.on, "none", None)>> \in Seq(Lines(p, ab))
    BY <1>5, OneLine
  <2>2. QED
    BY <2>1, SessionsMade DEF DropName, Session
<1>9. PutsEntry(p, PutEntry(r))
  BY <1>3 DEF PutsEntry
<1> HIDE DEF x, u
<1>10. <<l>> \in Seq(Lines(p, ab))
  BY <1>3, <1>4, OneLine
<1>11. PutEntry(r) \in Sessions(p, ab)
  BY <1>3, <1>10, SessionsMade
<1>12. QED
  BY <1>3, <1>7, <1>8, <1>9, <1>10, <1>11

\* The plans for an entry: put it, remove and put it, or leave it.
LEMMA EntryPlans ==
    ASSUME NEW cfg, NEW p, NEW ab, OpOK(p, ab), p.verb = "apply",
           p.on.kind \in {"prefix", "community"}, NEW dr,
           NEW r, r.on = p.on, p.want = Content(r.on, r.want)
    PROVE  /\ PlanOK(cfg, Go(<<PutEntry(r)>>), p, ab, dr)
           /\ cfg[p.on] = p.want => PlanOK(cfg, Go(<<>>), p, ab, dr)
           /\ p.blind \/ p.reworded \/ cfg[p.on] # p.want =>
                /\ PlanOK(cfg, Go(<<Session(Drop(p.on)), PutEntry(r)>>), p, ab, dr)
                /\ PlanOK(cfg, Go(<<Try(Drop(p.on)), PutEntry(r)>>), p, ab, dr)
                /\ SameName(p.on) \subseteq ab =>
                     PlanOK(cfg, Go(<<DropName(p.on), PutEntry(r)>>), p, ab, dr)
<1> DEFINE y == PutEntry(r)
           ls == PutEntry(r).lines
<1>1. /\ y = [as |-> None, lines |-> ls, optional |-> FALSE] /\ ls \in Seq(Lines(p, ab))
      /\ y \in Sessions(p, ab) /\ PutsEntry(p, y)
      /\ Session(Drop(p.on)) \in Sessions(p, ab) /\ Try(Drop(p.on)) \in Sessions(p, ab)
      /\ SameName(p.on) \subseteq ab => DropName(p.on) \in Sessions(p, ab)
  BY EntrySessions
<1>2. WillReach(cfg, ls, p, ab) /\ DropsFirst(cfg, ls, p)
  BY <1>1, PutsEntryReaches
<1> HIDE DEF y, ls
<1>3. PlanOK(cfg, Go(<<y>>), p, ab, dr)
  <2>1. PlanOK(cfg, Go(<<[as |-> None, lines |-> ls, optional |-> FALSE]>>), p, ab, dr)
    BY <1>1, <1>2, OneSession
  <2>2. QED
    BY <1>1, <2>1
<1>4. cfg[p.on] = p.want => PlanOK(cfg, Go(<<>>), p, ab, dr)
  BY NoPlan DEF Reached
<1>5. ASSUME NEW x \in Sessions(p, ab), Len(x.lines) = 1,
             p.blind \/ p.reworded \/ cfg[p.on] # p.want
      PROVE  PlanOK(cfg, Go(<<x, y>>), p, ab, dr)
  <2>1. DropsFirst(cfg, x.lines, p)
    BY <1>5 DEF DropsFirst
  <2>2. QED
    BY <1>1, <2>1, TwoSessions
<1>6. /\ Len(Session(Drop(p.on)).lines) = 1 /\ Len(Try(Drop(p.on)).lines) = 1
      /\ Len(DropName(p.on).lines) = 1
  BY DEF Session, Try, Drop, DropName
<1>7. QED
  BY <1>1, <1>3, <1>4, <1>5, <1>6 DEF y

\* An entry that is found as it would be written is as asked; one that is as asked is found,
\* and so if FRR shows it in the words it is sent in.
LEMMA EntryFound ==
    ASSUME Sound(running), NEW r \in Requests, r.on.kind \in {"prefix", "community"}
    PROVE  /\ Configured(r) => running[r.on] = Content(r.on, r.want)
           /\ running[r.on] = Content(r.on, r.want) /\ r.want.entry \notin DOMAIN Reworded =>
                Configured(r)
           /\ Present(r.on) => Seen(r.on)
           /\ ~Seen(r.on) => running[r.on] # Content(r.on, r.want)
<1> DEFINE c == Content(r.on, r.want)
<1>1. r.on \in Ids /\ r.on.kind \in Kinds
  BY BgpAssumption
<1>2. Attributes(r.on.kind) = {"entry"}
  BY DEF Attributes
<1>3. c \in Objects(r.on.kind) /\ c.entry = Shown(r.want.entry)
  BY <1>2, ContentIsObject
<1> HIDE DEF c
<1>4. c # Absent
  BY <1>1, <1>3, ObjectsExist
<1>5. Configured(r) => running[r.on] = c
  <2> SUFFICES ASSUME Configured(r) PROVE running[r.on] = c
    OBVIOUS
  <2>1. running[r.on] \in Objects(r.on.kind) /\ running[r.on].entry = Shown(r.want.entry)
    BY <1>1 DEF Configured, Present, Alike, Sound
  <2>2. QED
    BY <1>2, <1>3, <2>1 DEF Objects
<1>6. running[r.on] = c /\ r.want.entry \notin DOMAIN Reworded => Configured(r)
  BY <1>3, <1>4 DEF Configured, Present, Alike
<1>7. Present(r.on) => Seen(r.on)
  BY <1>1 DEF Seen, SameName, Begins
<1>8. QED
  BY <1>4, <1>5, <1>6, <1>7 DEF c, Present

\* Every plan for a prefix list leads to what was asked.
LEMMA PrefixPlanOK ==
    ASSUME Sound(running), NEW r \in Asked("prefix"), NEW ok \in Reads(3), NEW dr
    PROVE  PlanOK(running, PrefixPlan(r, ok), AnOp("apply", r, ok), Scope("apply", r, ok), dr)
<1> DEFINE p == AnOp("apply", r, ok)
           ab == Scope("apply", r, ok)
<1>1. r \in Requests /\ r.on.kind = "prefix"
  BY DEF Asked
<1>2. /\ OpOK(p, ab) /\ p.verb = "apply" /\ p.on = r.on /\ p.want = Content(r.on, r.want)
      /\ ~p.blind => Failed(ok) = {}
      /\ ~p.reworded => r.want.entry \notin DOMAIN Reworded
  BY <1>1, ApplyOK DEF AnOp
<1>3. ok[1] \in BOOLEAN /\ ok[2] \in BOOLEAN /\ ok[3] \in BOOLEAN
  BY ReadsTyped
<1>4. ~p.blind => ok[1]
  BY <1>2, ReadsTyped
<1> HIDE DEF p, ab
<1>5. /\ PlanOK(running, Go(<<PutEntry(r)>>), p, ab, dr)
      /\ running[r.on] = p.want => PlanOK(running, Go(<<>>), p, ab, dr)
      /\ p.blind \/ p.reworded \/ running[r.on] # p.want =>
           /\ PlanOK(running, Go(<<Session(Drop(r.on)), PutEntry(r)>>), p, ab, dr)
           /\ PlanOK(running, Go(<<Try(Drop(r.on)), PutEntry(r)>>), p, ab, dr)
      /\ PlanOK(running, Refuse, p, ab, dr)
  BY <1>1, <1>2, EntryPlans, NoPlan
<1>6. /\ Configured(r) => running[r.on] = p.want
      /\ ~Configured(r) => p.reworded \/ running[r.on] # p.want
  BY <1>1, <1>2, EntryFound
<1>7. CASE ok[1] /\ Seen(r.on)
  <2>1. PrefixPlan(r, ok) = UpdatePrefixList(r, ok)
    BY <1>7 DEF PrefixPlan
  <2>2. UpdatePrefixList(r, ok) =
          IF ~ok[2] \/ r \in Unbuildable THEN Refuse
          ELSE IF Configured(r) THEN Go(<<>>)
          ELSE Go(<<Session(Drop(r.on)), PutEntry(r)>>)
    BY <1>3 DEF UpdatePrefixList
  <2>3. QED
    BY <1>5, <1>6, <2>1, <2>2 DEF p, ab
<1>8. CASE ~(ok[1] /\ Seen(r.on))
  <2>1. PrefixPlan(r, ok) = AddPrefixList(r, ok)
    BY <1>8 DEF PrefixPlan
  <2>2. AddPrefixList(r, ok) =
          IF ~ok[2] THEN Refuse
          ELSE IF ~Seen(r.on) THEN Go(<<PutEntry(r)>>)
          ELSE IF ok[3] /\ r \notin Unbuildable /\ Configured(r) THEN Go(<<>>)
          ELSE Go(<<Try(Drop(r.on)), PutEntry(r)>>)
    BY <1>3 DEF AddPrefixList
  <2>3. Seen(r.on) => p.blind
    BY <1>4, <1>8
  <2>4. QED
    BY <1>5, <1>6, <2>1, <2>2, <2>3 DEF p, ab
<1>9. QED
  BY <1>7, <1>8

\* So does every plan for a community list.
LEMMA CommunityPlanOK ==
    ASSUME Sound(running), NEW r \in Asked("community"), NEW ok \in Reads(2), NEW dr
    PROVE  PlanOK(running, CommunityPlan(r, ok), AnOp("apply", r, ok), Scope("apply", r, ok), dr)
<1> DEFINE p == AnOp("apply", r, ok)
           ab == Scope("apply", r, ok)
<1>1. r \in Requests /\ r.on.kind = "community"
  BY DEF Asked
<1>2. /\ OpOK(p, ab) /\ p.verb = "apply" /\ p.on = r.on /\ p.want = Content(r.on, r.want)
      /\ ~p.blind => Failed(ok) = {}
      /\ ~p.reworded => r.want.entry \notin DOMAIN Reworded
  BY <1>1, ApplyOK DEF AnOp
<1>3. ok[1] \in BOOLEAN /\ ok[2] \in BOOLEAN
  BY ReadsTyped
<1>4. ~p.blind => ok[1]
  BY <1>2, ReadsTyped
<1>5. ~(ok[1] /\ Seen(r.on)) => SameName(r.on) \subseteq ab
  BY <1>1, <1>3 DEF Scope
<1> HIDE DEF p, ab
<1>6. /\ PlanOK(running, Go(<<PutEntry(r)>>), p, ab, dr)
      /\ running[r.on] = p.want => PlanOK(running, Go(<<>>), p, ab, dr)
      /\ p.blind \/ p.reworded \/ running[r.on] # p.want =>
           /\ PlanOK(running, Go(<<Session(Drop(r.on)), PutEntry(r)>>), p, ab, dr)
           /\ SameName(r.on) \subseteq ab =>
                PlanOK(running, Go(<<DropName(r.on), PutEntry(r)>>), p, ab, dr)
      /\ PlanOK(running, Refuse, p, ab, dr)
  BY <1>1, <1>2, EntryPlans, NoPlan
<1>7. /\ Configured(r) => running[r.on] = p.want
      /\ ~Configured(r) => p.reworded \/ running[r.on] # p.want
      /\ ~Seen(r.on) => running[r.on] # p.want
  BY <1>1, <1>2, EntryFound
<1>8. CASE ok[1] /\ Seen(r.on)
  <2>1. CommunityPlan(r, ok) = UpdateCommunityList(r, ok)
    BY <1>8 DEF CommunityPlan
  <2>2. UpdateCommunityList(r, ok) =
          IF ~ok[2] THEN Refuse
          ELSE IF Configured(r) THEN Go(<<>>)
          ELSE Go(<<Session(Drop(r.on)), PutEntry(r)>>)
    BY <1>3 DEF UpdateCommunityList
  <2>3. QED
    BY <1>6, <1>7, <2>1, <2>2 DEF p, ab
<1>9. CASE ~(ok[1] /\ Seen(r.on))
  <2>1. CommunityPlan(r, ok) = AddCommunityListWithCleanup(r, ok)
    BY <1>9 DEF CommunityPlan
  <2>2. AddCommunityListWithCleanup(r, ok) =
          IF ~ok[2] THEN Refuse
          ELSE IF Named(r.on) THEN Go(<<DropName(r.on), PutEntry(r)>>)
          ELSE Go(<<PutEntry(r)>>)
    BY <1>3 DEF AddCommunityListWithCleanup
  <2>3. p.blind \/ running[r.on] # p.want
    BY <1>4, <1>7, <1>9
  <2>4. QED
    BY <1>5, <1>6, <1>9, <2>1, <2>2, <2>3 DEF p, ab
<1>10. QED
  BY <1>8, <1>9
-----------------------------------------------------------------------------
(* Lines that only set attributes, and plans that open with one that does not. *)

NoDrops(ls) == \A n \in 1..Len(ls) : ~IsDrop(ls[n])

\* The lines ls set the attributes attrs of the object of p.
Writes(ls, p, ab, attrs) ==
    /\ ls \in Seq(Lines(p, ab)) /\ NoDrops(ls) /\ OnlySets(ls, p.on)
    /\ \A a \in attrs : Covers(ls, p.on, a)

\* No lines write nothing.
LEMMA WritesNone == ASSUME NEW p, NEW ab PROVE Writes(<<>>, p, ab, {})
BY DEF Writes, NoDrops, OnlySets

\* The lines that set some attributes write those.
LEMMA WritesSets ==
    ASSUME NEW p, NEW ab, OpOK(p, ab), p.verb = "apply", NEW want,
           NEW attrs \in SUBSET Attributes(p.on.kind), \A a \in attrs : want[a] = p.want[a]
    PROVE  Writes(Sets(p.on, attrs, want), p, ab, attrs)
BY SetsCover DEF Writes, NoDrops

\* Sessions without removals, one after the other, have none.
LEMMA NoDropsConcat ==
    ASSUME NEW L, NEW s \in Seq(L), NEW t \in Seq(L), NoDrops(s), NoDrops(t)
    PROVE  NoDrops(s \o t)
<1> SUFFICES ASSUME NEW n \in 1..Len(s \o t) PROVE ~IsDrop((s \o t)[n])
  BY DEF NoDrops
<1>1. \/ n \in 1..Len(s) /\ (s \o t)[n] = s[n]
      \/ n - Len(s) \in 1..Len(t) /\ (s \o t)[n] = t[n - Len(s)]
  OBVIOUS
<1>2. QED
  BY <1>1 DEF NoDrops

\* Lines after lines write what both do.
LEMMA WritesBoth ==
    ASSUME NEW p, NEW ab, NEW s, NEW t, NEW A, NEW B, Writes(s, p, ab, A), Writes(t, p, ab, B)
    PROVE  Writes(s \o t, p, ab, A \cup B)
<1>1. s \in Seq(Lines(p, ab)) /\ t \in Seq(Lines(p, ab))
  BY DEF Writes
<1>2. /\ s \o t \in Seq(Lines(p, ab)) /\ OnlySets(s \o t, p.on)
      /\ \A a : Covers(s, p.on, a) \/ Covers(t, p.on, a) => Covers(s \o t, p.on, a)
  BY <1>1, ConcatLines DEF Writes
<1>3. NoDrops(s \o t)
  BY <1>1, NoDropsConcat DEF Writes
<1>4. QED
  BY <1>2, <1>3 DEF Writes

\* A line that opens the session, and what it leaves to be set.
LEMMA OpenLeads ==
    ASSUME NEW cfg, NEW p, NEW ab, p.verb = "apply", NEW e \in Lines(p, ab),
           e.on = p.on, e.do \in {"enter", "router"}, NEW t, NEW A, Writes(t, p, ab, A),
           cfg[p.on] = Absent \/ cfg[p.on][e.attr] = p.want[e.attr],
           \A a \in Attributes(p.on.kind) \ {e.attr} : a \in A \/ Now(cfg, p.on)[a] = p.want[a]
    PROVE  WillReach(cfg, <<e>> \o t, p, ab)
<1>1. t \in Seq(Lines(p, ab)) /\ OnlySets(t, p.on) /\ \A a \in A : Covers(t, p.on, a)
  BY DEF Writes
<1> DEFINE ls == <<e>> \o t
<1>2. ls # <<>> /\ Head(ls) = e /\ Tail(ls) = t
  BY <1>1, ConsLines
<1> HIDE DEF ls
<1>3. Open(cfg, ls, p.on, p.want)
  BY <1>1, <1>2 DEF Open
<1>4. QED
  BY <1>3 DEF WillReach, Leads, ls

\* A session with no removal takes nothing away.
LEMMA OpenDrops ==
    ASSUME NEW cfg, NEW p, NEW ab, NEW e \in Lines(p, ab), ~IsDrop(e),
           NEW t \in Seq(Lines(p, ab)), NoDrops(t)
    PROVE  <<e>> \o t \in Seq(Lines(p, ab)) /\ DropsFirst(cfg, <<e>> \o t, p)
<1> DEFINE ls == <<e>> \o t
<1>1. <<e>> \in Seq(Lines(p, ab)) /\ NoDrops(<<e>>)
  BY OneLine DEF NoDrops
<1>2. NoDrops(ls) /\ ls \in Seq(Lines(p, ab))
  BY <1>1, NoDropsConcat, ConsLines
<1> HIDE DEF ls
<1>3. QED
  BY <1>2 DEF NoDrops, DropsFirst, ls
-----------------------------------------------------------------------------
(* Route maps. *)

\* A tag is written where it belongs, if it is not passed over.
LEMMA SetTagWrites ==
    ASSUME NEW p, NEW ab, OpOK(p, ab), p.verb = "apply", p.on.kind = "map", NEW tag,
           tag \in Values \cup {None},
           p.want.tag = (IF tag \in Extras THEN None ELSE Shown(tag)),
           p.want.extra = (IF tag \in Extras THEN tag ELSE None)
    PROVE  Writes(SetTag(p.on, tag), p, ab,
                  IF tag \in Unknown THEN {} ELSE {a \in {"tag", "extra"} : p.want[a] # None})
<1>1. "tag" \in Attributes("map") /\ "extra" \in Attributes("map") /\ None \notin Extras
      /\ p.on \in Ids /\ Unknown \subseteq Extras
  BY BgpAssumption DEF Attributes, OpOK
<1>2. CASE tag \in Unknown
  <2>1. SetTag(p.on, tag) = <<>>
    BY <1>2 DEF SetTag
  <2>2. QED
    BY <1>2, <2>1, WritesNone
<1>3. CASE tag = None
  <2>1. Shown(None) = None
    BY ShownIsValue
  <2>2. SetTag(p.on, tag) = <<>> /\ {a \in {"tag", "extra"} : p.want[a] # None} = {}
    BY <1>1, <1>3, <2>1 DEF SetTag
  <2>3. QED
    BY <1>1, <1>3, <2>2, WritesNone
<1>4. CASE tag \in Extras \ Unknown
  <2>1. Sets(p.on, {"extra"}, p.want) = <<Line("set", p.on, "extra", tag)>>
    BY <1>1, <1>4, SetsOne
  <2>2. SetTag(p.on, tag) = Sets(p.on, {"extra"}, p.want)
    BY <1>1, <1>4, <2>1 DEF SetTag
  <2>3. {a \in {"tag", "extra"} : p.want[a] # None} = {"extra"}
    BY <1>1, <1>4
  <2>4. Writes(Sets(p.on, {"extra"}, p.want), p, ab, {"extra"})
    BY <1>1, WritesSets
  <2>5. QED
    BY <1>4, <2>2, <2>3, <2>4
<1>5. CASE tag # None /\ tag \notin Extras
  <2>1. Sets(p.on, {"tag"}, p.want) = <<Line("set", p.on, "tag", Shown(tag))>>
    BY <1>1, <1>5, SetsOne
  <2>2. SetTag(p.on, tag) = Sets(p.on, {"tag"}, p.want)
    BY <1>1, <1>5, <2>1 DEF SetTag
  <2>3. {a \in {"tag", "extra"} : p.want[a] # None} \subseteq {"tag"}
    BY <1>5
  <2>4. Writes(Sets(p.on, {"tag"}, p.want), p, ab, {"tag"})
    BY <1>1, WritesSets
  <2>5. QED
    BY <1>1, <1>5, <2>2, <2>3, <2>4 DEF Writes
<1>6. QED
  BY <1>2, <1>3, <1>4, <1>5

\* What an operation whose success means what it says has in front of it.
LEMMA MapDrifts ==
    ASSUME NEW r \in Asked("map"), NEW ok \in Reads(2), ~Drifts("apply", r, ok)
    PROVE  /\ Present(r.on) => /\ ok[1] /\ running[r.on].action = Content(r.on, r.want).action
                               /\ running[r.on].extra = None
           /\ ok[1] => Lookalikes(r.on) = {}
           /\ ~Present(r.on) => r.want.match \notin Unsent /\ r.want.tag \notin Unknown
BY ReadsTyped DEF Drifts, Asked

\* The addition of a route map leads to what was asked, where there was none.
LEMMA AddRouteMapOK ==
    ASSUME Sound(running), NEW r \in Asked("map"), NEW ok, NEW dr,
           dr \/ (running[r.on] = Absent /\ r.want.match \notin Unsent /\ r.want.tag \notin Unknown)
    PROVE  PlanOK(running, Go(<<AddRouteMap(r)>>), AnOp("apply", r, ok), Scope("apply", r, ok), dr)
<1> DEFINE p == AnOp("apply", r, ok)
           ab == Scope("apply", r, ok)
           w == r.want
           c == Content(r.on, r.want)
           e == Line("enter", r.on, "action", c.action)
           A == IF w.match \in Unsent \cup {None} THEN <<>> ELSE Sets(r.on, {"match"}, c)
           B == IF w.pref = None THEN <<>> ELSE Sets(r.on, {"pref"}, c)
           C == SetTag(r.on, w.tag)
           inA == IF w.match \in Unsent \cup {None} THEN {} ELSE {"match"}
           inB == IF w.pref = None THEN {} ELSE {"pref"}
           inC == IF w.tag \in Unknown THEN {} ELSE {a \in {"tag", "extra"} : p.want[a] # None}
<1>1. r \in Requests /\ r.on.kind = "map"
  BY DEF Asked
<1>2. /\ OpOK(p, ab) /\ p.verb = "apply" /\ p.on = r.on /\ p.want = c
      /\ p.on \in Ids
  BY <1>1, ApplyOK DEF OpOK
<1>3. /\ p.want.match = Shown(w.match) /\ p.want.pref = Shown(w.pref) /\ w.tag \in Values \cup {None}
      /\ p.want.tag = (IF w.tag \in Extras THEN None ELSE Shown(w.tag))
      /\ p.want.extra = (IF w.tag \in Extras THEN w.tag ELSE None)
      /\ w.match = None => p.want.match = None
      /\ w.pref = None => p.want.pref = None
  BY <1>1, <1>2, ContentIsObject, ShownIsValue
<1> HIDE DEF p, ab, c
<1>4. Attributes("map") = {"action", "match", "pref", "tag", "extra"}
  BY DEF Attributes
<1>5. Writes(A, p, ab, inA)
  <2>1. Writes(Sets(r.on, {"match"}, c), p, ab, {"match"})
    BY <1>1, <1>2, <1>3, <1>4, WritesSets
  <2>2. QED
    BY <2>1, WritesNone
<1>6. Writes(B, p, ab, inB)
  <2>1. Writes(Sets(r.on, {"pref"}, c), p, ab, {"pref"})
    BY <1>1, <1>2, <1>3, <1>4, WritesSets
  <2>2. QED
    BY <2>1, WritesNone
<1>7. Writes(C, p, ab, inC)
  BY <1>1, <1>2, <1>3, SetTagWrites
<1>8. e \in Lines(p, ab) /\ e.on = p.on /\ e.do = "enter" /\ e.attr = "action"
  <2>1. e = Line("enter", p.on, "action", p.want.action)
    BY <1>2
  <2>2. e \in Lines(p, ab)
    BY <1>1, <1>2, <2>1, EnterLine
  <2>3. QED
    BY <1>2, <2>2 DEF Line
<1>9. AddRouteMap(r) = Session(<<e>> \o A \o B \o C)
  BY DEF AddRouteMap, c
<1> HIDE DEF A, B, C, e
<1> DEFINE t == A \o B \o C
           inT == (inA \cup inB) \cup inC
<1>10. Writes(t, p, ab, inT)
  BY <1>5, <1>6, <1>7, WritesBoth
<1>11. <<e>> \o A \o B \o C = <<e>> \o t
  <2>1. /\ A \in Seq(Lines(p, ab)) /\ B \in Seq(Lines(p, ab)) /\ C \in Seq(Lines(p, ab))
        /\ <<e>> \in Seq(Lines(p, ab))
    BY <1>5, <1>6, <1>7, <1>8 DEF Writes
  <2>2. QED
    BY <2>1
<1> HIDE DEF t
<1>12. dr \/ WillReach(running, <<e>> \o t, p, ab)
  <2> SUFFICES ASSUME ~dr PROVE WillReach(running, <<e>> \o t, p, ab)
    OBVIOUS
  <2>1. running[p.on] = Absent /\ w.match \notin Unsent /\ w.tag \notin Unknown
    BY <1>2
  <2>2. \A a \in Attributes(p.on.kind) : Now(running, p.on)[a] = None
    BY <1>2, <2>1, BlankIsObject DEF Now
  <2>3. ASSUME NEW a \in Attributes(p.on.kind) \ {e.attr}
        PROVE  a \in inT \/ Now(running, p.on)[a] = p.want[a]
    <3>1. a \in {"match", "pref", "tag", "extra"}
      BY <1>1, <1>2, <1>4, <1>8
    <3>2. a \in {"match", "pref", "tag", "extra"} /\ p.want[a] # None => a \in inT
      BY <1>3, <2>1
    <3>3. QED
      BY <2>2, <3>1, <3>2
  <2>4. QED
    BY <1>2, <1>8, <1>10, <2>1, <2>3, OpenLeads
<1>13. <<e>> \o t \in Seq(Lines(p, ab)) /\ DropsFirst(running, <<e>> \o t, p)
  <2>1. ~IsDrop(e) /\ t \in Seq(Lines(p, ab)) /\ NoDrops(t)
    BY <1>8, <1>10 DEF IsDrop, Writes
  <2>2. QED
    BY <1>8, <2>1, OpenDrops
<1>14. PlanOK(running, Go(<<[as |-> None, lines |-> <<e>> \o t, optional |-> FALSE]>>), p, ab, dr)
  BY <1>12, <1>13, OneSession
<1>15. QED
  BY <1>9, <1>11, <1>14 DEF Session, p, ab

\* Its update does, if what was read is what is there.
LEMMA UpdateRouteMapOK ==
    ASSUME Sound(running), NEW r \in Asked("map"), NEW ok, NEW dr, NEW seen,
           dr \/ /\ running[r.on] # Absent /\ running[r.on].action = Content(r.on, r.want).action
                 /\ running[r.on].extra = None /\ seen.tag = running[r.on].tag
                 /\ seen.match = running[r.on].match /\ seen.pref = running[r.on].pref
    PROVE  PlanOK(running, Go(<<UpdateRouteMap(r, seen)>>), AnOp("apply", r, ok),
                  Scope("apply", r, ok), dr)
<1> DEFINE p == AnOp("apply", r, ok)
           ab == Scope("apply", r, ok)
           w == r.want
           c == Content(r.on, r.want)
           e == Line("enter", r.on, "action", c.action)
           inA == {a \in {"match", "pref"} : ~Alike(seen[a], w[a])}
           A == Sets(r.on, inA, c)
           B == IF Alike(seen.tag, w.tag) THEN <<>> ELSE UpdateTag(r.on, w.tag)
<1>1. r \in Requests /\ r.on.kind = "map"
  BY DEF Asked
<1>2. /\ OpOK(p, ab) /\ p.verb = "apply" /\ p.on = r.on /\ p.want = c
      /\ p.on \in Ids /\ p.want \in Objects("map")
  BY <1>1, ApplyOK, ContentIsObject DEF OpOK
<1>3. /\ p.want.match = Shown(w.match) /\ p.want.pref = Shown(w.pref)
      /\ p.want.tag = (IF w.tag \in Extras THEN None ELSE Shown(w.tag))
      /\ p.want.extra = (IF w.tag \in Extras THEN w.tag ELSE None)
      /\ w.tag \in Extras => Shown(w.tag) = w.tag
  BY <1>1, <1>2, ContentIsObject, ShownIsValue, BgpAssumption
<1> HIDE DEF p, ab, c
<1>4. Attributes("map") = {"action", "match", "pref", "tag", "extra"}
  BY DEF Attributes
<1>5. w.tag \in Values \cup {None}
  BY <1>1, ContentIsObject
<1>6. Writes(A, p, ab, inA)
  BY <1>1, <1>2, <1>4, WritesSets
<1>7. e \in Lines(p, ab) /\ e.on = p.on /\ e.do = "enter" /\ e.attr = "action"
  <2>1. e = Line("enter", p.on, "action", p.want.action)
    BY <1>2
  <2>2. e \in Lines(p, ab)
    BY <1>1, <1>2, <2>1, EnterLine
  <2>3. QED
    BY <1>2, <2>2 DEF Line
<1>8. UpdateRouteMap(r, seen) = Session(<<e>> \o A \o B)
  BY DEF UpdateRouteMap, c
<1>9. CASE Alike(seen.tag, w.tag) \/ w.tag \notin Extras
  <2> DEFINE inB == IF Alike(seen.tag, w.tag) THEN {} ELSE {"tag"}
             t == A \o B
  <2>1. Writes(B, p, ab, inB)
    <3>1. CASE Alike(seen.tag, w.tag)
      BY <3>1, WritesNone
    <3>2. CASE ~Alike(seen.tag, w.tag) /\ w.tag \notin Extras
      <4>1. B = <<Line("set", p.on, "tag", p.want.tag)>>
        BY <1>2, <1>3, <3>2 DEF UpdateTag
      <4>2. Sets(p.on, {"tag"}, p.want) = <<Line("set", p.on, "tag", p.want.tag)>>
        BY <1>1, <1>2, <1>4, SetsOne
      <4>3. Writes(Sets(p.on, {"tag"}, p.want), p, ab, {"tag"})
        BY <1>1, <1>2, <1>4, WritesSets
      <4>4. QED
        BY <3>2, <4>1, <4>2, <4>3
    <3>3. QED
      BY <1>9, <3>1, <3>2
  <2> HIDE DEF A, B, e
  <2>2. Writes(t, p, ab, inA \cup inB)
    BY <1>6, <2>1, WritesBoth
  <2>3. <<e>> \o A \o B = <<e>> \o t
    <3>1. A \in Seq(Lines(p, ab)) /\ B \in Seq(Lines(p, ab)) /\ <<e>> \in Seq(Lines(p, ab))
      BY <1>6, <1>7, <2>1 DEF Writes
    <3>2. QED
      BY <3>1
  <2> HIDE DEF t
  <2>4. dr \/ WillReach(running, <<e>> \o t, p, ab)
    <3> SUFFICES ASSUME ~dr PROVE WillReach(running, <<e>> \o t, p, ab)
      OBVIOUS
    <3>1. /\ running[p.on] # Absent /\ running[p.on].action = p.want.action
          /\ running[p.on].extra = None /\ seen.tag = running[p.on].tag
          /\ seen.match = running[p.on].match /\ seen.pref = running[p.on].pref
      BY <1>2 DEF c
    <3>2. Now(running, p.on) = running[p.on] /\ running[p.on].tag \notin Extras
      BY <1>1, <1>2, <3>1 DEF Now, Sound
    <3>3. w.tag \notin Extras
      BY <1>3, <1>9, <3>1, <3>2 DEF Alike
    <3>4. ASSUME NEW a \in Attributes(p.on.kind) \ {e.attr}
          PROVE  a \in inA \cup inB \/ Now(running, p.on)[a] = p.want[a]
      <4>1. a \in {"match", "pref", "tag", "extra"}
        BY <1>1, <1>2, <1>4, <1>7
      <4>2. QED
        BY <1>3, <3>1, <3>2, <3>3, <4>1 DEF Alike
    <3>5. running[p.on][e.attr] = p.want[e.attr]
      BY <1>3, <1>7, <3>1
    <3>6. QED
      BY <1>2, <1>7, <2>2, <3>4, <3>5, OpenLeads
  <2>5. <<e>> \o t \in Seq(Lines(p, ab)) /\ DropsFirst(running, <<e>> \o t, p)
    <3>1. ~IsDrop(e) /\ t \in Seq(Lines(p, ab)) /\ NoDrops(t)
      BY <1>7, <2>2 DEF IsDrop, Writes
    <3>2. QED
      BY <1>7, <3>1, OpenDrops
  <2>6. PlanOK(running, Go(<<[as |-> None, lines |-> <<e>> \o t, optional |-> FALSE]>>), p, ab, dr)
    BY <2>4, <2>5, OneSession
  <2>7. QED
    BY <1>8, <2>3, <2>6 DEF Session, p, ab
<1>10. CASE ~Alike(seen.tag, w.tag) /\ w.tag \in Extras
  <2> DEFINE m == Line("malformed", r.on, "tag", w.tag)
             t == A \o <<m>>
  <2>1. B = <<m>>
    BY <1>10 DEF UpdateTag
  <2>2. m \in Lines(p, ab) /\ m.do = "malformed"
    <3>1. Line("malformed", p.on, "tag", w.tag) \in Lines(p, ab)
      BY <1>1, <1>2, <1>5, MalformedLine
    <3>2. QED
      BY <1>2, <3>1 DEF Line
  <2> HIDE DEF A, B, e, m
  <2>3. A \in Seq(Lines(p, ab)) /\ NoDrops(A)
    BY <1>6 DEF Writes
  <2>4. <<m>> \in Seq(Lines(p, ab)) /\ NoDrops(<<m>>) /\ Doomed(<<m>>)
    <3>1. Len(<<m>>) = 1 /\ <<m>>[1] = m /\ ~IsDrop(m)
      BY <2>2 DEF IsDrop
    <3>2. QED
      BY <2>2, <3>1, OneLine DEF NoDrops, Doomed
  <2>5. t \in Seq(Lines(p, ab)) /\ NoDrops(t) /\ Doomed(t)
    BY <2>3, <2>4, NoDropsConcat, ConcatLines
  <2>6. <<e>> \o A \o B = <<e>> \o t
    BY <1>7, <2>1, <2>3, <2>4
  <2> HIDE DEF t
  <2>7. Doomed(<<e>> \o t)
    BY <1>7, <2>5, OneLine, ConcatLines
  <2>8. WillReach(running, <<e>> \o t, p, ab)
    BY <1>2, <2>7 DEF WillReach, Leads
  <2>9. <<e>> \o t \in Seq(Lines(p, ab)) /\ DropsFirst(running, <<e>> \o t, p)
    <3>1. ~IsDrop(e)
      BY <1>7 DEF IsDrop
    <3>2. QED
      BY <1>7, <2>5, <3>1, OpenDrops
  <2>10. PlanOK(running, Go(<<[as |-> None, lines |-> <<e>> \o t, optional |-> FALSE]>>), p, ab, dr)
    BY <2>8, <2>9, OneSession
  <2>11. QED
    BY <1>8, <2>6, <2>10 DEF Session, p, ab
<1>11. QED
  BY <1>9, <1>10

\* Every plan for a route map does, but for those of Drifts.
LEMMA MapPlanOK ==
    ASSUME Sound(running), NEW r \in Asked("map"), NEW ok \in Reads(2),
           NEW plan \in MapPlans(r, ok)
    PROVE  PlanOK(running, plan, AnOp("apply", r, ok), Scope("apply", r, ok),
                  Drifts("apply", r, ok))
<1> DEFINE p == AnOp("apply", r, ok)
           ab == Scope("apply", r, ok)
           dr == Drifts("apply", r, ok)
           o == r.on
<1>1. r \in Requests /\ o.kind = "map" /\ o \in Ids
  BY BgpAssumption DEF Asked
<1>2. /\ Present(o) => running[o] \in Found(o)
      /\ Lookalikes(o) = {} => Found(o) = IF Present(o) THEN {running[o]} ELSE {}
  BY DEF Found
<1>3. ok[1] \in BOOLEAN /\ ok[2] \in BOOLEAN
  BY ReadsTyped
<1>4. ~dr => /\ Present(o) => /\ ok[1] /\ running[o].action = Content(o, r.want).action
                              /\ running[o].extra = None
             /\ ok[1] => Lookalikes(o) = {}
             /\ ~Present(o) => r.want.match \notin Unsent /\ r.want.tag \notin Unknown
  BY MapDrifts
<1>5. CASE ~ok[1] \/ Found(o) = {}
  <2>1. plan = Refuse \/ plan = Go(<<AddRouteMap(r)>>)
    BY <1>3, <1>5 DEF MapPlans
  <2>2. dr \/ (running[o] = Absent /\ r.want.match \notin Unsent /\ r.want.tag \notin Unknown)
    BY <1>2, <1>4, <1>5 DEF Present
  <2> HIDE DEF dr
  <2>3. QED
    BY <2>1, <2>2, AddRouteMapOK, NoPlan DEF dr
<1>6. CASE ok[1] /\ Found(o) # {} /\ ~ok[2]
  <2>1. plan = Refuse
    BY <1>3, <1>6 DEF MapPlans
  <2>2. QED
    BY <2>1, NoPlan
<1>7. CASE ok[1] /\ Found(o) # {} /\ ok[2]
  <2>1. PICK c \in Found(o) : \E seen \in Parsed(c) :
          plan = IF AsAsked(seen, r.want) THEN Go(<<>>) ELSE Go(<<UpdateRouteMap(r, seen)>>)
    BY <1>7 DEF MapPlans
  <2>2. PICK seen \in Parsed(c) :
          plan = IF AsAsked(seen, r.want) THEN Go(<<>>) ELSE Go(<<UpdateRouteMap(r, seen)>>)
    BY <2>1
  <2>3. ~dr => /\ c = running[o] /\ running[o] # Absent
               /\ running[o].action = Content(o, r.want).action /\ running[o].extra = None
    BY <1>2, <1>4, <1>7 DEF Present
  <2>4. PICK t \in TagRead(c) :
          seen = [action |-> c.action, match |-> c.match, pref |-> c.pref, tag |-> t]
    BY <2>2 DEF Parsed
  <2>5. c.extra = None => t = c.tag
    BY <2>4 DEF TagRead
  <2>6. ~dr => /\ seen.tag = running[o].tag /\ seen.match = running[o].match
               /\ seen.pref = running[o].pref /\ seen.action = running[o].action
    BY <2>3, <2>4, <2>5
  <2> HIDE DEF dr
  <2>7. CASE AsAsked(seen, r.want)
    <3>1. dr \/ Reached(running, p, ab)
      <4> SUFFICES ASSUME ~dr PROVE Reached(running, p, ab)
        OBVIOUS
      <4>1. p.verb = "apply" /\ p.on = o /\ p.want = Content(o, r.want)
        BY <1>1, ApplyOK
      <4>2. /\ running[o] \in Objects("map") /\ running[o].tag \notin Extras
            /\ p.want \in Objects("map")
        BY <1>1, <2>3, <4>1, ContentIsObject DEF Sound
      <4> HIDE DEF p
      <4>3. /\ p.want.action = running[o].action /\ p.want.match = running[o].match
            /\ p.want.pref = running[o].pref /\ p.want.tag = running[o].tag
            /\ p.want.extra = running[o].extra
        <5>1. /\ r.want \in [{"action", "match", "pref", "tag"} -> Values \cup {None}]
              /\ p.want.match = Shown(r.want.match) /\ p.want.pref = Shown(r.want.pref)
              /\ p.want.tag = IF r.want.tag \in Extras THEN None ELSE Shown(r.want.tag)
              /\ p.want.extra = IF r.want.tag \in Extras THEN r.want.tag ELSE None
              /\ r.want.tag \in Extras => Shown(r.want.tag) = r.want.tag
          BY <1>1, <4>1, ContentIsObject, ShownIsValue, BgpAssumption
        <5>2. \A a \in {"match", "pref", "tag"} : seen[a] = Shown(r.want[a])
          BY <2>7, <5>1 DEF AsAsked, Alike
        <5>3. QED
          BY <2>3, <2>6, <4>1, <4>2, <5>1, <5>2
      <4>4. Attributes("map") = {"action", "match", "pref", "tag", "extra"}
        BY DEF Attributes
      <4>5. running[o] = p.want
        BY <4>2, <4>3, <4>4 DEF Objects
      <4>6. QED
        BY <4>1, <4>5 DEF Reached
    <3>2. plan = Go(<<>>)
      BY <2>2, <2>7
    <3>3. QED
      BY <3>1, <3>2, NoPlan DEF dr
  <2>8. CASE ~AsAsked(seen, r.want)
    <3>1. plan = Go(<<UpdateRouteMap(r, seen)>>)
      BY <2>2, <2>8
    <3>2. QED
      BY <2>3, <2>6, <3>1, UpdateRouteMapOK DEF dr
  <2>9. QED
    BY <2>7, <2>8
<1>8. QED
  BY <1>3, <1>5, <1>6, <1>7
-----------------------------------------------------------------------------
(* Removals of lists and of route maps. *)

\* Every plan for the removal of a name leads to its absence.
LEMMA RemovalPlanOK ==
    ASSUME NEW o \in Ids, o.kind \in {"prefix", "community", "map"}, NEW r, r.on = o,
           NEW ok \in Reads(1), NEW dr
    PROVE  PlanOK(running, RemovalPlan(o, ok), AnOp("remove", r, ok), Scope("remove", r, ok), dr)
<1> DEFINE p == AnOp("remove", r, ok)
           ab == Scope("remove", r, ok)
           l == Line("drop name", o, "none", None)
<1>1. OpOK(p, ab) /\ p.verb = "remove" /\ p.on = o
  BY RemoveOK
<1>2. SameName(o) \subseteq ab /\ \A i \in ab : i \in SameName(o)
  BY DEF Scope, SameName
<1>3. ok[1] \in BOOLEAN
  BY ReadsTyped
<1> HIDE DEF p, ab
<1>4. l \in Lines(p, ab) /\ l.do = "drop name" /\ l.on = o
  <2>1. l \in Lines(p, ab)
    BY <1>1, <1>2, DropLine
  <2>2. QED
    BY <2>1 DEF Line
<1>5. CASE ~ok[1]
  <2>1. RemovalPlan(o, ok) = Refuse
    BY <1>5 DEF RemovalPlan
  <2>2. QED
    BY <2>1, NoPlan DEF p, ab
<1>6. CASE ok[1] /\ Named(o)
  <2>1. RemovalPlan(o, ok) = Go(<<[as |-> None, lines |-> <<l>>, optional |-> FALSE]>>)
    BY <1>6 DEF RemovalPlan, DropName, Session
  <2> HIDE DEF l
  <2>2. Len(<<l>>) = 1 /\ <<l>>[1] = l /\ <<l>> \in Seq(Lines(p, ab))
    BY <1>4, OneLine
  <2>3. WillReach(running, <<l>>, p, ab)
    <3> SUFFICES ASSUME NEW i \in ab, i.kind = p.on.kind PROVE Clears(running, <<l>>, i)
      BY <1>1 DEF WillReach
    <3>1. Removes(<<l>>[1], i)
      BY <1>2, <1>4, <2>2 DEF Removes
    <3>2. QED
      BY <2>2, <3>1 DEF Clears
  <2>4. DropsFirst(running, <<l>>, p)
    BY <1>1 DEF DropsFirst
  <2>5. PlanOK(running, Go(<<[as |-> None, lines |-> <<l>>, optional |-> FALSE]>>), p, ab, dr)
    BY <2>2, <2>3, <2>4, OneSession
  <2>6. QED
    BY <2>1, <2>5 DEF p, ab
<1>7. CASE ok[1] /\ ~Named(o)
  <2>1. RemovalPlan(o, ok) = Go(<<>>)
    BY <1>7 DEF RemovalPlan
  <2>2. Reached(running, p, ab)
    BY <1>1, <1>2, <1>7 DEF Reached, Named, Present, Begins, SameName
  <2>3. QED
    BY <2>1, <2>2, NoPlan DEF p, ab
<1>8. QED
  BY <1>3, <1>5, <1>6, <1>7
-----------------------------------------------------------------------------
(* Neighbors. *)

\* Below the line of the process, a neighbor is made by its AS.
LEMMA RouterLeads ==
    ASSUME NEW cfg, NEW p, NEW ab, p.verb = "apply", NEW e \in Lines(p, ab), e.on # p.on,
           NEW t, NEW A, Writes(t, p, ab, A),
           \A a \in Attributes(p.on.kind) : a \in A \/ Now(cfg, p.on)[a] = p.want[a],
           cfg[p.on] # Absent \/ (t # <<>> /\ Head(t).on = p.on /\ Head(t).attr = "as")
    PROVE  WillReach(cfg, <<e>> \o t, p, ab)
<1> DEFINE ls == <<e>> \o t
<1>1. t \in Seq(Lines(p, ab)) /\ OnlySets(t, p.on) /\ \A a \in A : Covers(t, p.on, a)
  BY DEF Writes
<1>2. OnlySets(<<e>>, p.on) /\ <<e>> \in Seq(Lines(p, ab))
  BY OneLine DEF OnlySets
<1>3. OnlySets(ls, p.on) /\ \A a \in A : Covers(ls, p.on, a)
  BY <1>1, <1>2, ConcatLines
<1>4. /\ ls[1] = e /\ Len(ls) = Len(t) + 1 /\ \A n \in 1..Len(t) : ls[n + 1] = t[n]
  BY <1>1, ConsLines
<1> HIDE DEF ls
<1>5. cfg[p.on] # Absent \/ Makes(ls, p.on)
  <2> SUFFICES ASSUME cfg[p.on] = Absent PROVE Makes(ls, p.on)
    OBVIOUS
  <2>1. t # <<>> /\ Head(t).on = p.on /\ Head(t).attr = "as"
    OBVIOUS
  <2>2. Head(t) = t[1] /\ 1 \in 1..Len(t) /\ Len(t) \in Nat
    BY <1>1, <2>1
  <2>3. 2 \in 1..Len(ls) /\ ls[2] = Head(t)
    BY <1>4, <2>2
  <2>4. \A m \in 1..(2 - 1) : ls[m].on # p.on
    BY <1>4
  <2>5. QED
    BY <2>1, <2>3, <2>4 DEF Makes
<1>6. Due(cfg, ls, p.on, p.want)
  BY <1>3, <1>5 DEF Due
<1>7. QED
  BY <1>6 DEF WillReach, Leads, ls

\* What is known of a neighbor whose success is worth something.
LEMMA NeighborDrifts ==
    ASSUME NEW r \in Asked("neighbor"), NEW ok \in Reads(3), ~Drifts("apply", r, ok)
    PROVE  /\ Present(r.on) => /\ ok[1] /\ running[r.on].as = Content(r.on, r.want).as
                               /\ ParsedNeighbor(running[r.on]) = running[r.on]
           /\ ~Present(r.on) => r.want.graceful = None
           /\ \A a \in Unasked(r) : Now(running, r.on)[a] = Content(r.on, r.want)[a]
<1>1. r.on.kind = "neighbor"
  BY DEF Asked
<1>2. Before(r) = Now(running, r.on)
  BY <1>1 DEF Before, Now, Present
<1>3. QED
  BY <1>1, <1>2, ReadsTyped DEF Drifts

\* What is sent for a neighbor, and what it covers.
LEMMA RouterSessionOK ==
    ASSUME NEW r \in Asked("neighbor"), NEW ok, NEW dr, NEW t, NEW A,
           Writes(t, AnOp("apply", r, ok), Scope("apply", r, ok), A),
           dr \/ /\ \A a \in Attributes("neighbor") :
                      a \in A \/ Now(running, r.on)[a] = Content(r.on, r.want)[a]
                 /\ Present(r.on) \/ (t # <<>> /\ Head(t).on = r.on /\ Head(t).attr = "as")
    PROVE  PlanOK(running, Go(<<RouterSession(r.as, t)>>), AnOp("apply", r, ok),
                  Scope("apply", r, ok), dr)
<1> DEFINE p == AnOp("apply", r, ok)
           ab == Scope("apply", r, ok)
           e == Line("router", Global, "as", r.as)
<1>1. r \in Requests /\ r.on.kind = "neighbor" /\ r.as \in Values /\ r.on # Global
  BY BgpAssumption, GlobalIsOne DEF Asked
<1>2. OpOK(p, ab) /\ p.verb = "apply" /\ p.on = r.on /\ p.want = Content(r.on, r.want)
  BY <1>1, ApplyOK
<1> HIDE DEF p, ab
<1>3. e \in Lines(p, ab) /\ e.on # p.on /\ ~IsDrop(e)
  <2>1. e \in Lines(p, ab)
    BY <1>1, <1>2, RouterLine
  <2>2. QED
    BY <1>1, <1>2, <2>1 DEF Line, IsDrop
<1>4. RouterSession(r.as, t) = [as |-> r.as, lines |-> <<e>> \o t, optional |-> FALSE]
  BY DEF RouterSession
<1> HIDE DEF e
<1>5. Writes(t, p, ab, A)
  BY DEF p, ab
<1>6. dr \/ WillReach(running, <<e>> \o t, p, ab)
  BY <1>1, <1>2, <1>3, <1>5, RouterLeads DEF Present
<1>7. <<e>> \o t \in Seq(Lines(p, ab)) /\ DropsFirst(running, <<e>> \o t, p)
  BY <1>3, <1>5, OpenDrops DEF Writes
<1>8. PlanOK(running, Go(<<[as |-> r.as, lines |-> <<e>> \o t, optional |-> FALSE]>>), p, ab, dr)
  BY <1>1, <1>6, <1>7, OneSession
<1>9. QED
  BY <1>4, <1>8 DEF p, ab

\* The addition of a neighbor writes what was asked, but for graceful restart and what is
\* not set.
LEMMA NeighborLinesWrite ==
    ASSUME NEW r \in Asked("neighbor"), NEW ok
    PROVE  /\ Writes(NeighborLines(r), AnOp("apply", r, ok), Scope("apply", r, ok),
                     {"as"} \cup {a \in {"plain", "keep", "connect", "filter"} :
                                    r.want[a] \notin {None, Unset}})
           /\ NeighborLines(r) # <<>> /\ Head(NeighborLines(r)).on = r.on
           /\ Head(NeighborLines(r)).attr = "as"
<1> DEFINE p == AnOp("apply", r, ok)
           ab == Scope("apply", r, ok)
           c == Content(r.on, r.want)
           more == {a \in {"plain", "keep", "connect", "filter"} : r.want[a] \notin {None, Unset}}
           s == Sets(r.on, {"as"}, c)
           t == Sets(r.on, more, c)
           x == Line("set", r.on, "as", c.as)
<1>1. r \in Requests /\ r.on.kind = "neighbor" /\ r.on \in Ids
  BY BgpAssumption DEF Asked
<1>2. OpOK(p, ab) /\ p.verb = "apply" /\ p.on = r.on /\ p.want = c
  BY <1>1, ApplyOK
<1>3. NeighborLines(r) = s \o t
  BY DEF NeighborLines
<1> HIDE DEF p, ab, c
<1>4. {"as"} \in SUBSET Attributes(p.on.kind) /\ more \in SUBSET Attributes(p.on.kind)
  BY <1>1, <1>2 DEF Attributes
<1>5. Writes(s, p, ab, {"as"}) /\ Writes(t, p, ab, more)
  BY <1>2, <1>4, WritesSets
<1>6. s = <<x>>
  BY <1>1, <1>2, <1>4, SetsOne
<1>7. x.on = r.on /\ x.attr = "as"
  BY DEF Line
<1> HIDE DEF s, t, more, x
<1>8. Writes(s \o t, p, ab, {"as"} \cup more)
  BY <1>5, WritesBoth
<1>9. s \o t # <<>> /\ Head(s \o t) = x
  <2>1. t \in Seq(Lines(p, ab)) /\ <<x>> \in Seq(Lines(p, ab))
    BY <1>5, <1>6 DEF Writes
  <2>2. QED
    BY <1>6, <2>1
<1>10. QED
  BY <1>3, <1>7, <1>8, <1>9 DEF p, ab, more

\* What an update sends is all that differs, but for what the request leaves to FRR.
LEMMA ChangesCover ==
    ASSUME NEW r \in Asked("neighbor"), NEW now
    PROVE  \A a \in {"plain", "keep", "connect", "filter", "graceful"} :
             \/ a \in PlainChange(now, r.want) \cup TimerChange(now, r.want)
                      \cup FilterChange(now, r.want) \cup GracefulChange(now, r.want)
             \/ now[a] = Content(r.on, r.want)[a]
             \/ a \in Unasked(r)
<1> DEFINE c == Content(r.on, r.want)
<1>1. r \in Requests /\ r.on.kind = "neighbor"
  BY DEF Asked
<1>2. Attributes("neighbor") = {"as", "plain", "keep", "connect", "filter", "graceful"}
  BY DEF Attributes
<1>3. DOMAIN r.want = Attributes("neighbor") /\ \A a \in Attributes("neighbor") : c[a] = Shown(r.want[a])
  BY <1>1, ContentIsObject
<1> HIDE DEF c
<1>4. ASSUME NEW a \in {"plain", "filter", "graceful"}
      PROVE  \/ a \in PlainChange(now, r.want) \cup FilterChange(now, r.want)
                      \cup GracefulChange(now, r.want)
             \/ now[a] = c[a]
  BY <1>2, <1>3 DEF PlainChange, FilterChange, GracefulChange, Alike
<1>5. ASSUME NEW a \in {"keep", "connect"}
      PROVE  a \in TimerChange(now, r.want) \/ now[a] = c[a] \/ a \in Unasked(r)
  <2>1. CASE r.want.keep = None
    BY <2>1 DEF TimerChange
  <2>2. CASE r.want.keep # None /\ \A t \in {"keep", "connect"} : Alike(now[t], r.want[t])
    BY <1>2, <1>3, <2>2 DEF Alike
  <2>3. CASE r.want.keep # None /\ ~(\A t \in {"keep", "connect"} : Alike(now[t], r.want[t]))
    <3>1. TimerChange(now, r.want) = {t \in {"keep", "connect"} : r.want[t] # Unset}
      BY <2>3 DEF TimerChange
    <3>2. r.want[a] = Unset => a \in Unasked(r)
      BY <1>2, <1>3 DEF Unasked, Optional
    <3>3. QED
      BY <3>1, <3>2
  <2>4. QED
    BY <2>1, <2>2, <2>3
<1>6. QED
  BY <1>4, <1>5 DEF c

\* The update of a neighbor writes what differs.
LEMMA UpdateNeighborOK ==
    ASSUME Sound(running), NEW r \in Asked("neighbor"), NEW ok, NEW dr, NEW seen \in BOOLEAN,
           Present(r.on),
           dr \/ /\ running[r.on].as = Content(r.on, r.want).as
                 /\ ParsedNeighbor(running[r.on]) = running[r.on]
                 /\ \A a \in Unasked(r) : Now(running, r.on)[a] = Content(r.on, r.want)[a]
    PROVE  PlanOK(running, UpdateNeighbor(r, seen), AnOp("apply", r, ok), Scope("apply", r, ok), dr)
<1> DEFINE p == AnOp("apply", r, ok)
           ab == Scope("apply", r, ok)
           c == Content(r.on, r.want)
           now == ParsedNeighbor(running[r.on])
           changed == PlainChange(now, r.want) \cup TimerChange(now, r.want)
                      \cup FilterChange(now, r.want) \cup GracefulChange(now, r.want)
           lines == NeighborUpdate(r, now)
<1>1. r \in Requests /\ r.on.kind = "neighbor" /\ r.on \in Ids
  BY BgpAssumption DEF Asked
<1>2. OpOK(p, ab) /\ p.verb = "apply" /\ p.on = r.on /\ p.want = c /\ c \in Objects("neighbor")
  BY <1>1, ApplyOK, ContentIsObject
<1>3. Attributes("neighbor") = {"as", "plain", "keep", "connect", "filter", "graceful"}
  BY DEF Attributes
<1>4. /\ running[r.on] \in Objects("neighbor") /\ running[r.on] # Absent
      /\ Now(running, r.on) = running[r.on]
  BY <1>1 DEF Sound, Present, Now
<1>5. ~dr => /\ now = running[r.on] /\ now.as = c.as
             /\ \A a \in Unasked(r) : running[r.on][a] = c[a]
  BY <1>4
<1>6. \A a \in {"plain", "keep", "connect", "filter", "graceful"} :
        a \in changed \/ now[a] = c[a] \/ a \in Unasked(r)
  BY ChangesCover
<1>7. changed \subseteq {"plain", "keep", "connect", "filter", "graceful"}
  BY DEF PlainChange, TimerChange, FilterChange, GracefulChange
<1>8. lines = IF now.as # c.as THEN NeighborLines(r) ELSE Sets(r.on, changed, c)
  BY DEF NeighborUpdate
<1>9. UpdateNeighbor(r, seen) =
        IF ~seen THEN Refuse ELSE IF lines = <<>> THEN Go(<<>>)
        ELSE Go(<<RouterSession(r.as, lines)>>)
  BY DEF UpdateNeighbor
<1> HIDE DEF p, ab, now, c, changed, lines
<1>10. CASE now.as # c.as
  <2>1. dr /\ lines = NeighborLines(r)
    BY <1>5, <1>8, <1>10
  <2>2. PlanOK(running, Go(<<RouterSession(r.as, lines)>>), p, ab, dr)
    BY <2>1, NeighborLinesWrite, RouterSessionOK DEF p, ab
  <2>3. QED
    BY <1>9, <2>1, <2>2, NoPlan DEF p, ab
<1>11. CASE now.as = c.as
  <2>1. lines = Sets(r.on, changed, c)
    BY <1>8, <1>11
  <2>2. changed \in SUBSET Attributes(p.on.kind)
    BY <1>1, <1>2, <1>3, <1>7
  <2>3. ~dr => \A a \in Attributes("neighbor") : a \in changed \/ running[r.on][a] = c[a]
    BY <1>3, <1>5, <1>6
  <2>4. Writes(lines, p, ab, changed) /\ (lines = <<>> => changed = {})
    BY <1>2, <2>1, <2>2, WritesSets, SetsCover
  <2>5. PlanOK(running, Go(<<RouterSession(r.as, lines)>>), p, ab, dr)
    BY <1>4, <2>3, <2>4, RouterSessionOK DEF p, ab, c
  <2>6. ~dr /\ lines = <<>> => running[r.on] = c
    BY <1>2, <1>4, <2>3, <2>4 DEF Objects
  <2>7. lines = <<>> => PlanOK(running, Go(<<>>), p, ab, dr)
    BY <1>2, <2>6, NoPlan DEF Reached
  <2>8. QED
    BY <1>9, <2>5, <2>7, NoPlan DEF p, ab
<1>12. QED
  BY <1>10, <1>11

\* Every plan for a neighbor leads to what was asked, but for those of Drifts.
LEMMA NeighborPlanOK ==
    ASSUME Sound(running), NEW r \in Asked("neighbor"), NEW ok \in Reads(3)
    PROVE  PlanOK(running, NeighborPlan(r, ok), AnOp("apply", r, ok), Scope("apply", r, ok),
                  Drifts("apply", r, ok))
<1> DEFINE p == AnOp("apply", r, ok)
           ab == Scope("apply", r, ok)
           dr == Drifts("apply", r, ok)
<1>1. ok[1] \in BOOLEAN /\ ok[2] \in BOOLEAN /\ ok[3] \in BOOLEAN
  BY ReadsTyped
<1>2. ~dr => /\ Present(r.on) => /\ ok[1] /\ running[r.on].as = Content(r.on, r.want).as
                                 /\ ParsedNeighbor(running[r.on]) = running[r.on]
             /\ ~Present(r.on) => r.want.graceful = None
             /\ \A a \in Unasked(r) : Now(running, r.on)[a] = Content(r.on, r.want)[a]
  BY NeighborDrifts
<1> HIDE DEF dr
<1>3. CASE ok[1] /\ Present(r.on)
  <2>1. NeighborPlan(r, ok) = UpdateNeighbor(r, ok[2])
    BY <1>3 DEF NeighborPlan
  <2>2. QED
    BY <1>1, <1>2, <1>3, <2>1, UpdateNeighborOK DEF dr
<1>4. CASE ~(ok[1] /\ Present(r.on)) /\ (~ok[2] \/ ~Present(r.on))
  <2>1. NeighborPlan(r, ok) = Go(<<RouterSession(r.as, NeighborLines(r))>>)
    BY <1>1, <1>4 DEF NeighborPlan, AddNeighbor
  <2> DEFINE A == {"as"} \cup {a \in {"plain", "keep", "connect", "filter"} :
                                 r.want[a] \notin {None, Unset}}
             c == Content(r.on, r.want)
  <2>2. ~dr => \A a \in Attributes("neighbor") : a \in A \/ Now(running, r.on)[a] = c[a]
    <3> SUFFICES ASSUME ~dr, NEW a \in Attributes("neighbor"), a \notin A
                 PROVE  Now(running, r.on)[a] = c[a]
      OBVIOUS
    <3>1. ~Present(r.on) /\ r.want.graceful = None
      BY <1>2, <1>4
    <3>2. r \in Requests /\ r.on \in Ids /\ r.on.kind = "neighbor"
      BY BgpAssumption DEF Asked
    <3>3. Now(running, r.on)[a] = None
      BY <3>1, <3>2, BlankIsObject DEF Now, Present
    <3>4. r.want[a] \in {None, Unset}
      BY <3>1 DEF Attributes
    <3>5. c[a] = None
      BY <3>2, <3>4, ContentIsObject, ShownIsValue
    <3>6. QED
      BY <3>3, <3>5
  <2> HIDE DEF A
  <2>3. Writes(NeighborLines(r), p, ab, A) /\ NeighborLines(r) # <<>>
        /\ Head(NeighborLines(r)).on = r.on /\ Head(NeighborLines(r)).attr = "as"
    BY NeighborLinesWrite DEF A
  <2>4. QED
    BY <2>1, <2>2, <2>3, RouterSessionOK DEF dr
<1>5. CASE ~ok[1] /\ ok[2] /\ Present(r.on)
  <2>1. dr
    BY <1>2, <1>5
  <2>2. NeighborPlan(r, ok) = IF ~NeedsUpdate(r) THEN Go(<<>>) ELSE UpdateNeighbor(r, ok[3])
    BY <1>1, <1>5 DEF NeighborPlan, AddNeighbor
  <2>3. PlanOK(running, UpdateNeighbor(r, ok[3]), p, ab, dr)
    BY <1>1, <1>5, <2>1, UpdateNeighborOK
  <2>4. QED
    BY <2>1, <2>2, <2>3, NoPlan DEF dr
<1>6. QED
  BY <1>1, <1>3, <1>4, <1>5

\* Every plan for its removal leads to its absence.
LEMMA NeighborRemovalPlanOK ==
    ASSUME Sound(running), NEW o \in Neighbors, NEW r, r.on = o, NEW ok \in Reads(2), NEW dr
    PROVE  PlanOK(running, NeighborRemovalPlan(o, ok), AnOp("remove", r, ok),
                  Scope("remove", r, ok), dr)
<1> DEFINE p == AnOp("remove", r, ok)
           ab == Scope("remove", r, ok)
           as == running[Global].as
           e == Line("router", Global, "as", as)
           d == Line("drop", o, "none", None)
<1>1. o \in Ids /\ o.kind = "neighbor"
  BY DEF Neighbors
<1>2. OpOK(p, ab) /\ p.verb = "remove" /\ p.on = o
  BY <1>1, RemoveOK
<1>3. \A i \in ab : i.kind = "neighbor" => i = o
  BY <1>1, GlobalIsOne DEF Scope
<1>4. ok[1] \in BOOLEAN /\ ok[2] \in BOOLEAN
  BY ReadsTyped
<1> HIDE DEF p, ab
<1>5. CASE ~ok[1] \/ ~ok[2]
  <2>1. NeighborRemovalPlan(o, ok) = Refuse
    BY <1>4, <1>5 DEF NeighborRemovalPlan
  <2>2. QED
    BY <2>1, NoPlan DEF p, ab
<1>6. CASE ok[1] /\ ok[2] /\ ~Present(o)
  <2>1. NeighborRemovalPlan(o, ok) = Go(<<>>)
    BY <1>6 DEF NeighborRemovalPlan
  <2>2. Reached(running, p, ab)
    BY <1>1, <1>2, <1>3, <1>6 DEF Reached, Present
  <2>3. QED
    BY <2>1, <2>2, NoPlan DEF p, ab
<1>7. CASE ok[1] /\ ok[2] /\ Present(o)
  <2>1. NeighborRemovalPlan(o, ok) =
          Go(<<[as |-> as, lines |-> <<e>> \o <<d>>, optional |-> FALSE]>>)
    BY <1>7 DEF NeighborRemovalPlan, RouterSession, Drop
  <2>2. as \in Values \cup {None}
    <3>1. running[Global] # Absent /\ Global \in Ids /\ Global.kind = "bgp"
      BY <1>7, GlobalIsOne DEF Sound, Present
    <3>2. running[Global] \in Objects("bgp")
      BY <3>1 DEF Sound
    <3>3. QED
      BY <3>2 DEF Objects, Attributes
  <2>3. e \in Lines(p, ab)
    BY <1>1, <1>2, <2>2, RouterLine
  <2>4. d \in Lines(p, ab) /\ d.do = "drop" /\ d.on = o
    <3>1. d \in Lines(p, ab)
      BY <1>1, <1>2, DropLine
    <3>2. QED
      BY <3>1 DEF Line
  <2> HIDE DEF e, d
  <2> DEFINE ls == <<e>> \o <<d>>
  <2>5. ls \in Seq(Lines(p, ab)) /\ Len(ls) = 2 /\ ls[2] = d
    BY <2>3, <2>4
  <2> HIDE DEF ls
  <2>6. WillReach(running, ls, p, ab)
    <3> SUFFICES ASSUME NEW i \in ab, i.kind = p.on.kind PROVE Clears(running, ls, i)
      BY <1>2 DEF WillReach
    <3>1. Removes(ls[2], i)
      BY <1>1, <1>2, <1>3, <2>4, <2>5 DEF Removes
    <3>2. QED
      BY <2>5, <3>1 DEF Clears
  <2>7. DropsFirst(running, ls, p)
    BY <1>2 DEF DropsFirst
  <2>8. PlanOK(running, Go(<<[as |-> as, lines |-> ls, optional |-> FALSE]>>), p, ab, dr)
    BY <2>2, <2>5, <2>6, <2>7, OneSession
  <2>9. QED
    BY <2>1, <2>8 DEF p, ab, ls
<1>8. QED
  BY <1>4, <1>5, <1>6, <1>7
-----------------------------------------------------------------------------
(* The process. *)

\* What is known of a process whose success is worth something.
LEMMA ConfigDrifts ==
    ASSUME NEW r \in Asked("bgp"), NEW ok, ~Drifts("apply", r, ok)
    PROVE  \A a \in Unasked(r) : Before(r)[a] = Content(r.on, r.want)[a]
BY DEF Drifts

\* Every plan for the process leads to what was asked, but for those of Drifts.
LEMMA ConfigPlanOK ==
    ASSUME Sound(running), NEW r \in Asked("bgp"), NEW ok \in Reads(1)
    PROVE  PlanOK(running, ConfigPlan(r, ok), AnOp("apply", r, ok), Scope("apply", r, ok),
                  Drifts("apply", r, ok))
<1> DEFINE p == AnOp("apply", r, ok)
           ab == Scope("apply", r, ok)
           dr == Drifts("apply", r, ok)
           w == Content(Global, r.want)
           d == Line("drop process", Global, "none", None)
           e == Line("router", Global, "as", w.as)
           S == Attributes("bgp") \ ({"as"} \cup Unasked(r))
           t == Sets(Global, S, w)
<1>1. r \in Requests /\ r.on = Global /\ Global.kind = "bgp" /\ Global \in Ids
  BY BgpAssumption, GlobalIsOne DEF Asked
<1>2. OpOK(p, ab) /\ p.verb = "apply" /\ p.on = Global /\ p.want = w
      /\ (~p.blind => Failed(ok) = {}) /\ w \in Objects("bgp")
  BY <1>1, ApplyOK, ContentIsObject
<1>3. "as" \in Attributes("bgp") /\ S \in SUBSET Attributes("bgp")
      /\ \A a \in Attributes("bgp") : a \in S \/ a = "as" \/ a \in Unasked(r)
  BY DEF Attributes
<1>4. ~dr => \A a \in Unasked(r) : Before(r)[a] = w[a]
  BY <1>1, ConfigDrifts
<1>5. NewProcess(r) => Neighbors \cup {Global} \subseteq ab
  BY <1>1 DEF Scope
<1>6. w.as \in Values \cup {None} /\ ok[1] \in BOOLEAN
  BY <1>2, <1>3, ReadsTyped DEF Objects
<1>7. ConfigPlan(r, ok) =
        IF ~ok[1] THEN Refuse
        ELSE Go(<<[as |-> w.as, optional |-> FALSE, lines |->
                     (IF NewProcess(r) THEN <<d>> ELSE <<>>) \o <<e>> \o t]>>)
  BY DEF ConfigPlan
<1> HIDE DEF p, ab, dr, w
<1>8. e \in Lines(p, ab) /\ e.on = Global /\ e.do = "router" /\ e.attr = "as"
  <2>1. e \in Lines(p, ab)
    BY <1>1, <1>2, <1>6, RouterLine
  <2>2. QED
    BY <2>1 DEF Line
<1>9. NewProcess(r) => d \in Lines(p, ab)
  BY <1>2, <1>5, DropProcessLine
<1>10. d.do = "drop process" /\ d.on = Global
  BY DEF Line
<1>11. NewProcess(r) => Present(Global) /\ running[Global].as # w.as
  BY DEF NewProcess, w
<1>12. ~NewProcess(r) => running[Global] = Absent \/ running[Global].as = w.as
  BY DEF NewProcess, Present, w
<1>13. Writes(t, p, ab, S)
  BY <1>1, <1>2, <1>3, WritesSets
<1> HIDE DEF d, e, S, t
<1>0. t \in Seq(Lines(p, ab)) /\ <<e>> \in Seq(Lines(p, ab))
  BY <1>8, <1>13, OneLine DEF Writes
<1>14. CASE ~NewProcess(r)
  <2>1. (IF NewProcess(r) THEN <<d>> ELSE <<>>) \o <<e>> \o t = <<e>> \o t
    BY <1>0, <1>14
  <2>2. dr \/ WillReach(running, <<e>> \o t, p, ab)
    <3> SUFFICES ASSUME ~dr PROVE WillReach(running, <<e>> \o t, p, ab)
      OBVIOUS
    <3>1. running[p.on] = Absent \/ running[p.on][e.attr] = p.want[e.attr]
      BY <1>2, <1>8, <1>12, <1>14
    <3>2. ASSUME NEW a \in Attributes(p.on.kind) \ {e.attr}
          PROVE  a \in S \/ Now(running, p.on)[a] = p.want[a]
      <4>1. a \in S \/ a \in Unasked(r)
        BY <1>1, <1>2, <1>3, <1>8
      <4>2. Before(r) = Now(running, Global)
        BY <1>1, <1>14 DEF Before, Now, Present
      <4>3. QED
        BY <1>2, <1>4, <4>1, <4>2
    <3>3. QED
      BY <1>2, <1>8, <1>13, <3>1, <3>2, OpenLeads
  <2>3. <<e>> \o t \in Seq(Lines(p, ab)) /\ DropsFirst(running, <<e>> \o t, p)
    <3>1. ~IsDrop(e)
      BY <1>8 DEF IsDrop
    <3>2. QED
      BY <1>8, <1>13, <3>1, OpenDrops DEF Writes
  <2>4. PlanOK(running, Go(<<[as |-> w.as, lines |-> <<e>> \o t, optional |-> FALSE]>>), p, ab, dr)
    BY <1>6, <2>2, <2>3, OneSession
  <2>5. QED
    BY <1>6, <1>7, <2>1, <2>4, NoPlan DEF p, ab, dr
<1>15. CASE NewProcess(r)
  <2> DEFINE u == <<e>> \o t
             ls == <<d>> \o u
  <2>1. <<d>> \in Seq(Lines(p, ab)) /\ d \in Lines(p, ab)
    BY <1>9, <1>15, OneLine
  <2>2. (IF NewProcess(r) THEN <<d>> ELSE <<>>) \o <<e>> \o t = ls
    BY <1>0, <1>15, <2>1
  <2>3. t \in Seq(Lines(p, ab)) /\ OnlySets(t, Global) /\ NoDrops(t)
        /\ \A a \in S : Covers(t, Global, a)
    BY <1>2, <1>13 DEF Writes
  <2>4. u \in Seq(Lines(p, ab)) /\ u # <<>> /\ Head(u) = e /\ Tail(u) = t
    BY <1>8, <2>3, ConsLines
  <2>5. NoDrops(u)
    <3>1. NoDrops(<<e>>)
      <4>1. Len(<<e>>) = 1 /\ <<e>>[1] = e /\ ~IsDrop(e)
        BY <1>8 DEF IsDrop
      <4>2. QED
        BY <4>1 DEF NoDrops
    <3>2. QED
      BY <1>0, <2>3, <3>1, NoDropsConcat
  <2> HIDE DEF u
  <2>6. /\ ls \in Seq(Lines(p, ab)) /\ ls # <<>> /\ Head(ls) = d /\ Tail(ls) = u
        /\ \A n \in 1..Len(ls) : n # 1 => n - 1 \in 1..Len(u) /\ ls[n] = u[n - 1]
    <3>1. /\ ls \in Seq(Lines(p, ab)) /\ ls # <<>> /\ Head(ls) = d /\ Tail(ls) = u
      BY <2>1, <2>4, ConsLines
    <3>2. QED
      BY <3>1, HeadAndTail
  <2> HIDE DEF ls
  <2>7. dr \/ WillReach(running, ls, p, ab)
    <3>1. ASSUME NEW a \in Attributes(Global.kind) \ {e.attr}
          PROVE  dr \/ Covers(t, Global, a) \/ w[a] = None
      <4>1. Before(r) = Blank(Global)
        BY <1>1, <1>15 DEF Before
      <4>2. Blank(Global)[a] = None
        BY <1>1, <3>1, BlankIsObject
      <4>3. QED
        BY <1>1, <1>3, <1>4, <1>8, <2>3, <4>1, <4>2
    <3>2. dr \/ Reset(ls, Global, w)
      BY <1>8, <1>10, <2>3, <2>4, <2>6, <3>1 DEF Reset
    <3>3. QED
      BY <1>2, <3>2 DEF WillReach, Leads
  <2>8. DropsFirst(running, ls, p)
    <3>1. running[p.on] # p.want
      BY <1>2, <1>11, <1>15
    <3>2. QED
      BY <2>5, <2>6, <3>1 DEF DropsFirst, NoDrops
  <2>9. PlanOK(running, Go(<<[as |-> w.as, lines |-> ls, optional |-> FALSE]>>), p, ab, dr)
    BY <1>6, <2>6, <2>7, <2>8, OneSession
  <2>10. QED
    BY <1>6, <1>7, <2>2, <2>9, NoPlan DEF p, ab, dr
<1>16. QED
  BY <1>14, <1>15
-----------------------------------------------------------------------------
(* The invariant. *)

\* The lines that the session at hand still has.
Current == IF pc = "session" /\ todo # <<>> THEN Head(todo).lines ELSE left

Shape ==
    /\ Sound(running) /\ Sound(startup)
    /\ pc \in {"idle", "session", "lines", "save"} /\ rejected \in BOOLEAN
    /\ pc = "idle" => todo = <<>>
    /\ pc \in {"lines", "save"} => todo # <<>>
    /\ pc # "lines" => left = <<>> /\ ~rejected

Bounds ==
    /\ DOMAIN promised = Ids /\ answer \in {"none", "ok", "error"} /\ about \subseteq Ids
    /\ drifts \in BOOLEAN /\ unsaved \in BOOLEAN
    /\ ops \in 0..MaxOps /\ faults \in 0..MaxFailures /\ crashes \in 0..MaxCrashes

\* FRR rejects none of the values it asks for without the agent noticing.
Accepted(p) == p.verb = "apply" => \A a \in DOMAIN p.want : p.want[a] \notin Unreported

\* What is under way is an operation, and what is sent for it is its own.
OpInv ==
    pc # "idle" =>
      /\ OpOK(op, about) /\ ProcessKnown(running, op, about)
      /\ todo \in Seq(Sessions(op, about)) /\ left \in Seq(Lines(op, about))
      /\ Followed(op, todo)
      /\ op.verb = "remove" => ~drifts
      /\ ~drifts => Accepted(op)
      /\ \A i \in about : promised[i] = NoPromise

\* The last session reaches what was asked, unless one of its lines is rejected.
GoalInv ==
    pc # "idle" /\ ~drifts =>
      /\ todo = <<>> => Reached(running, op, about)
      /\ Len(todo) = 1 => rejected \/ WillReach(running, Current, op, about)

DropInv == pc # "idle" => DropsFirst(running, Current, op)

\* Between sessions what runs is saved, unless a session ended without a save.
SavedInv == ~unsaved /\ pc \in {"idle", "session"} => startup = running

IInv == Shape /\ Bounds /\ OpInv /\ GoalInv /\ DropInv /\ SavedInv /\ SuccessLasts

\* FRR at first.
LEMMA InitInv == Init => IInv
<1> SUFFICES ASSUME Init PROVE IInv
  OBVIOUS
<1>1. PICK c \in Initial : running = [i \in Ids |-> IF i \in DOMAIN c THEN c[i] ELSE Absent]
  BY DEF Init
<1>2. running = [i \in Ids |-> running[i]]
  BY <1>1
<1>3. \A i \in Ids : running[i] = IF i \in DOMAIN c THEN c[i] ELSE Absent
  BY <1>1
<1>4. \A i \in Ids : running[i] = Absent \/ running[i] \in Objects(i.kind)
  BY <1>3, BgpAssumption
<1>5. \A i \in Ids : i.kind = "map" /\ running[i] # Absent => running[i].tag \notin Extras
  BY <1>3, BgpAssumption
<1>6. ASSUME NEW i \in Neighbors, running[i] # Absent PROVE running[Global] # Absent
  <2>1. i \in Ids \cap DOMAIN c /\ i.kind = "neighbor"
    BY <1>3, <1>6 DEF Neighbors
  <2>2. PICK j \in Ids \cap DOMAIN c : j.kind = "bgp"
    BY <2>1, BgpAssumption
  <2>3. j = Global /\ c[j] \in Objects("bgp")
    BY <2>2, GlobalIsOne, BgpAssumption
  <2>4. "bgp" \in Kinds
    BY DEF Kinds
  <2>5. c[Global] # Absent
    BY <2>3, <2>4, ObjectsExist
  <2>6. QED
    BY <1>3, <2>2, <2>3, <2>5
<1>7. Sound(running)
  BY <1>2, <1>4, <1>5, <1>6 DEF Sound
<1>8. Shape /\ OpInv /\ GoalInv /\ DropInv /\ SavedInv
  BY <1>7 DEF Init, Shape, OpInv, GoalInv, DropInv, SavedInv
<1>9. Bounds
  <2>1. DOMAIN running = Ids
    BY <1>1
  <2>2. MaxOps \in Nat /\ MaxFailures \in Nat /\ MaxCrashes \in Nat
    BY BgpAssumption
  <2>3. /\ promised = running /\ answer = "none" /\ about = {} /\ ~drifts /\ drifts \in BOOLEAN
        /\ ~unsaved /\ unsaved \in BOOLEAN /\ ops = 0 /\ faults = 0 /\ crashes = 0
    BY DEF Init
  <2>4. QED
    BY <2>1, <2>2, <2>3 DEF Bounds
<1>10. SuccessLasts
  BY DEF Init, SuccessLasts
<1>11. QED
  BY <1>8, <1>9, <1>10 DEF IInv

\* An operation begins.
LEMMA BeginInv ==
    ASSUME IInv, NEW verb, NEW r, NEW planned, NEW n \in Nat, NEW ok \in Reads(n),
           Begin(verb, r, planned, ok),
           OpOK(AnOp(verb, r, ok), Scope(verb, r, ok)),
           ProcessKnown(running, AnOp(verb, r, ok), Scope(verb, r, ok)),
           PlanOK(running, planned, AnOp(verb, r, ok), Scope(verb, r, ok), Drifts(verb, r, ok))
    PROVE  IInv'
<1> DEFINE p == AnOp(verb, r, ok)
           ab == Scope(verb, r, ok)
           dr == Drifts(verb, r, ok)
           plan == Validated(verb, r, planned)
<1>1. PlanOK(running, plan, p, ab, dr)
  BY NoPlan DEF Validated
<1>2. /\ pc = "idle" /\ ops < MaxOps /\ ops' = ops + 1 /\ op' = p /\ todo' = plan.todo
      /\ pc' = (IF plan.refused THEN "idle" ELSE "session")
      /\ answer' = (IF plan.refused THEN "error" ELSE "none")
      /\ about' = ab /\ drifts' = dr
      /\ promised' = [i \in Ids |-> IF i \in about' THEN NoPromise ELSE promised[i]]
      /\ faults' = faults + Cardinality(Failed(ok))
      /\ running' = running /\ startup' = startup /\ left' = left /\ rejected' = rejected
      /\ unsaved' = unsaved /\ crashes' = crashes
  BY DEF Begin, AnOp, conf, vtysh
<1>3. (p.verb = "remove" => ~dr) /\ (~dr => Accepted(p))
  BY DEF AnOp, Drifts, Accepted
<1>4. OpOK(p, ab) /\ ProcessKnown(running, p, ab) /\ ab \subseteq Ids
  BY DEF OpOK
<1>5. dr \in BOOLEAN
  BY DEF Drifts
<1>6. Cardinality(Failed(ok)) \in Nat /\ faults + Cardinality(Failed(ok)) <= MaxFailures
  <2>1. IsFiniteSet(1..n) /\ Failed(ok) \subseteq 1..n
    BY FS_Interval DEF Reads, Failed
  <2>2. IsFiniteSet(Failed(ok))
    BY <2>1, FS_Subset
  <2>3. QED
    BY <2>2, FS_CardinalityType DEF Reads
<1> HIDE DEF p, ab, dr, plan
<1>7. left = <<>> /\ ~rejected /\ rejected \in BOOLEAN /\ Sound(running) /\ Sound(startup)
  BY <1>2 DEF IInv, Shape
<1>8. /\ plan.todo \in Seq(Sessions(p, ab)) /\ Followed(p, plan.todo)
      /\ plan.refused => plan.todo = <<>>
      /\ ~plan.refused /\ ~dr /\ plan.todo = <<>> => Reached(running, p, ab)
      /\ ~dr /\ Len(plan.todo) = 1 => WillReach(running, plan.todo[1].lines, p, ab)
      /\ plan.todo # <<>> => DropsFirst(running, plan.todo[1].lines, p)
  BY <1>1 DEF PlanOK
<1>9. Shape'
  BY <1>2, <1>7, <1>8 DEF Shape
<1>10. Bounds'
  BY <1>2, <1>4, <1>5, <1>6, BgpAssumption DEF IInv, Bounds
<1>11. \A i \in about' : promised'[i] = NoPromise
  BY <1>2, <1>4
<1>12. OpInv'
  BY <1>2, <1>3, <1>4, <1>7, <1>8, <1>11 DEF OpInv
<1>13. pc' # "idle" => pc' = "session" /\ ~plan.refused
  BY <1>2
<1>14. Current' = IF pc' = "session" /\ todo' # <<>> THEN Head(todo').lines ELSE <<>>
  BY <1>2, <1>7 DEF Current
<1>15. todo' # <<>> => Head(todo') = plan.todo[1]
  BY <1>2, <1>8
<1>16. GoalInv'
  <2>1. ASSUME pc' # "idle", ~drifts', todo' = <<>> PROVE Reached(running', op', about')
    BY <1>2, <1>8, <1>13, <2>1
  <2>2. ASSUME pc' # "idle", ~drifts', Len(todo') = 1
        PROVE  WillReach(running', Current', op', about')
    <3>1. todo' # <<>>
      BY <1>2, <1>8, <2>2
    <3>2. Current' = plan.todo[1].lines
      BY <1>13, <1>14, <1>15, <2>2, <3>1
    <3>3. QED
      BY <1>2, <1>8, <2>2, <3>2
  <2>3. QED
    BY <2>1, <2>2 DEF GoalInv
<1>17. DropInv'
  <2>1. CASE pc' = "session" /\ todo' # <<>>
    BY <1>2, <1>8, <1>14, <1>15, <2>1 DEF DropInv
  <2>2. CASE ~(pc' = "session" /\ todo' # <<>>)
    BY <1>14, <2>2 DEF DropInv, DropsFirst
  <2>3. QED
    BY <2>1, <2>2
<1>18. SavedInv'
  BY <1>2 DEF IInv, SavedInv
<1>19. SuccessLasts'
  BY <1>2 DEF IInv, SuccessLasts
<1>20. QED
  BY <1>9, <1>10, <1>12, <1>16, <1>17, <1>18, <1>19 DEF IInv

\* A line runs.
LEMMA RunLineFacts ==
    ASSUME IInv, RunLine
    PROVE  /\ Head(left) \in Lines(op, about) /\ Tail(left) \in Seq(Lines(op, about))
           /\ left \in Seq(Lines(op, about)) /\ left # <<>> /\ pc = "lines"
           /\ running' = Applied(running, Head(todo), Head(left))
           /\ Sound(running')
           /\ \A i \in Ids \ about : running'[i] = running[i]
           /\ OpOK(op, about)
           /\ Rejects(running, Head(todo), Head(left)) => running' = running
           /\ ~drifts /\ Rejects(running, Head(todo), Head(left)) =>
                Reported(running, Head(todo), Head(left))
<1>1. /\ pc = "lines" /\ left # <<>> /\ running' = Applied(running, Head(todo), Head(left))
      /\ left \in Seq(Lines(op, about)) /\ OpOK(op, about) /\ ProcessKnown(running, op, about)
      /\ Sound(running)
  BY DEF RunLine, IInv, Shape, OpInv
<1>2. Head(left) \in Lines(op, about) /\ Tail(left) \in Seq(Lines(op, about))
  BY <1>1, HeadAndTail
<1>3. Typed(Head(left)) /\ InScope(Head(left), op, about) /\ Head(left) \in AllLines
  BY <1>2 DEF Lines
<1>4. Sound(running')
  BY <1>1, <1>3, AppliedSound
<1>5. \A i \in Ids \ about : running'[i] = running[i]
  BY <1>1, <1>3, AppliedInScope DEF ProcessKnown
<1>6. Rejects(running, Head(todo), Head(left)) => running' = running
  BY <1>1, <1>3, AppliedCases
<1>7. ~drifts /\ Rejects(running, Head(todo), Head(left)) => Reported(running, Head(todo), Head(left))
  <2> SUFFICES ASSUME ~drifts, Head(left).do \in {"set", "enter"} PROVE Head(left).val \notin Unreported
    BY DEF Rejects
  <2>1. op.verb = "apply" /\ Accepted(op)
    BY <1>1, <1>2 DEF IInv, OpInv, OpOK, Lines, Toward
  <2>2. /\ Head(left).on = op.on /\ op.want \in Objects(op.on.kind)
        /\ Head(left).do = "set" => /\ Head(left).val = op.want[Head(left).attr]
                                    /\ Head(left).attr \in Attributes(op.on.kind)
        /\ Head(left).do = "enter" => Head(left).val = op.want.action /\ op.on.kind = "map"
    BY <1>1, <1>2, <2>1 DEF OpOK, Lines, Toward, Typed
  <2>3. DOMAIN op.want = Attributes(op.on.kind) /\ "action" \in Attributes("map")
    BY <2>2 DEF Objects, Attributes
  <2>4. QED
    BY <2>1, <2>2, <2>3 DEF Accepted
<1>8. QED
  BY <1>1, <1>2, <1>4, <1>5, <1>6, <1>7

\* A line brings the operation one line nearer to its goal, or is rejected.
LEMMA RunLineInv == ASSUME IInv, RunLine PROVE IInv'
<1> DEFINE s == Head(todo)
           l == Head(left)
<1>1. /\ l \in Lines(op, about) /\ Tail(left) \in Seq(Lines(op, about))
      /\ left \in Seq(Lines(op, about)) /\ left # <<>> /\ pc = "lines"
      /\ running' = Applied(running, s, l) /\ Sound(running')
      /\ \A i \in Ids \ about : running'[i] = running[i]
      /\ OpOK(op, about) /\ (Rejects(running, s, l) => running' = running)
      /\ ~drifts /\ Rejects(running, s, l) => Reported(running, s, l)
  BY RunLineFacts
<1>2. /\ rejected' = (rejected \/ Reported(running, s, l))
      /\ left' = Tail(left)
      /\ startup' = startup /\ pc' = pc /\ op' = op /\ todo' = todo /\ answer' = answer
      /\ about' = about /\ drifts' = drifts /\ promised' = promised /\ unsaved' = unsaved
      /\ ops' = ops /\ faults' = faults /\ crashes' = crashes
  BY DEF RunLine, hist
<1>3. Sound(running)
  BY DEF IInv, Shape
<1>4. Shape'
  BY <1>1, <1>2 DEF IInv, Shape
<1>5. Bounds'
  BY <1>2 DEF IInv, Bounds
<1>6. OpInv'
  <2>1. ProcessKnown(running', op, about)
    BY <1>1, GlobalIsOne DEF IInv, OpInv, ProcessKnown
  <2>2. QED
    BY <1>1, <1>2, <2>1 DEF IInv, OpInv
<1>7. Current = left /\ Current' = Tail(left)
  BY <1>1, <1>2 DEF Current
<1>8. GoalInv'
  <2> SUFFICES ASSUME ~drifts, Len(todo) = 1, ~rejected, ~Rejects(running, s, l)
               PROVE  WillReach(running', Tail(left), op, about)
    BY <1>1, <1>2, <1>7 DEF GoalInv, IInv, Shape
  <2>1. WillReach(running, left, op, about)
    BY <1>1, <1>7 DEF IInv, GoalInv
  <2>2. CASE op.verb = "apply"
    <3>1. Leads(running, left, op.on, op.want) /\ op.on \in Ids
      BY <1>1, <2>1, <2>2 DEF WillReach, OpOK
    <3>2. Leads(Applied(running, s, Head(left)), Tail(left), op.on, op.want)
      BY <1>1, <1>3, <2>2, <3>1, LeadsStep
    <3>3. QED
      BY <1>1, <2>2, <3>2 DEF WillReach
  <2>3. CASE op.verb = "remove"
    <3> SUFFICES ASSUME NEW i \in about, i.kind = op.on.kind PROVE Clears(running', Tail(left), i)
      BY <2>3 DEF WillReach
    <3>1. i \in Ids /\ i.kind # "bgp" /\ Clears(running, left, i)
      BY <1>1, <2>1, <2>3 DEF OpOK, WillReach
    <3>2. Clears(Applied(running, s, Head(left)), Tail(left), i)
      BY <1>1, <1>3, <2>3, <3>1, ClearsStep
    <3>3. QED
      BY <1>1, <3>2
  <2>4. QED
    BY <1>1, <2>2, <2>3 DEF OpOK
<1>9. DropInv'
  <2> SUFFICES ASSUME op.verb = "apply", ~op.blind, ~op.reworded, NEW n \in 1..Len(Tail(left)),
                      IsDrop(Tail(left)[n])
               PROVE  FALSE
    BY <1>2, <1>7 DEF DropInv, DropsFirst
  <2>1. n + 1 \in 1..Len(left) /\ Tail(left)[n] = left[n + 1]
    BY <1>1, HeadAndTail
  <2>2. n + 1 = 1
    BY <1>1, <1>7, <2>1 DEF IInv, DropInv, DropsFirst
  <2>3. QED
    BY <2>2
<1>10. SavedInv'
  BY <1>1, <1>2 DEF SavedInv
<1>11. SuccessLasts'
  <2> SUFFICES ASSUME NEW i \in Ids, promised[i] # NoPromise
               PROVE  running'[i] = promised[i] /\ startup[i] = promised[i]
    BY <1>2 DEF SuccessLasts
  <2>1. i \notin about
    BY <1>1 DEF IInv, OpInv
  <2>2. QED
    BY <1>1, <2>1 DEF IInv, SuccessLasts
<1>12. QED
  BY <1>4, <1>5, <1>6, <1>8, <1>9, <1>10, <1>11 DEF IInv

\* A session begins.
LEMMA StartSessionInv == ASSUME IInv, StartSession PROVE IInv'
<1>1. /\ pc = "session" /\ todo # <<>> /\ left' = Head(todo).lines /\ pc' = "lines"
      /\ running' = running /\ startup' = startup /\ op' = op /\ todo' = todo
      /\ rejected' = rejected /\ answer' = answer
      /\ about' = about /\ drifts' = drifts /\ promised' = promised /\ unsaved' = unsaved
      /\ ops' = ops /\ faults' = faults /\ crashes' = crashes
  BY DEF StartSession, hist, conf
<1>2. Current' = Current /\ ~rejected
  BY <1>1 DEF Current, IInv, Shape
<1>3. Head(todo).lines \in Seq(Lines(op, about))
  <2>1. todo \in Seq(Sessions(op, about))
    BY <1>1 DEF IInv, OpInv
  <2>2. Head(todo) \in Sessions(op, about)
    BY <1>1, <2>1, HeadAndTail
  <2>3. QED
    BY <2>2 DEF Sessions
<1>4. Shape'
  BY <1>1 DEF IInv, Shape
<1>5. Bounds'
  BY <1>1 DEF IInv, Bounds
<1>6. OpInv'
  BY <1>1, <1>3 DEF IInv, OpInv
<1>7. GoalInv'
  BY <1>1, <1>2 DEF IInv, GoalInv
<1>8. DropInv'
  BY <1>1, <1>2 DEF IInv, DropInv
<1>9. SavedInv' /\ SuccessLasts'
  BY <1>1 DEF IInv, SavedInv, SuccessLasts
<1>10. QED
  BY <1>4, <1>5, <1>6, <1>7, <1>8, <1>9 DEF IInv

\* What follows the first of at most two sessions.
LEMMA OneOrTwo ==
    ASSUME NEW S, NEW ss \in Seq(S), ss # <<>>, Len(ss) \in {0, 1, 2}
    PROVE  /\ Tail(ss) \in Seq(S) /\ Head(ss) = ss[1]
           /\ Len(ss) = 1 => Tail(ss) = <<>>
           /\ Len(ss) # 1 => /\ Len(ss) = 2 /\ Len(Tail(ss)) = 1 /\ Tail(ss) # <<>>
                             /\ Head(Tail(ss)) = ss[2] /\ Tail(ss)[1] = ss[2]
<1>0. \A a, b : /\ Tail(<<a>>) = <<>> /\ Head(<<a>>) = a /\ <<a>>[1] = a
                /\ Tail(<<a, b>>) = <<b>> /\ Head(<<a, b>>) = a /\ <<a, b>>[1] = a
                /\ <<a, b>>[2] = b /\ Len(<<b>>) = 1 /\ <<b>> # <<>>
  OBVIOUS
<1>1. Tail(ss) \in Seq(S)
  OBVIOUS
<1>2. CASE Len(ss) = 1
  <2>1. ss = <<ss[1]>>
    BY <1>2
  <2>2. QED
    BY <1>0, <1>1, <1>2, <2>1, Zenon
<1>3. CASE Len(ss) = 2
  <2>1. ss = <<ss[1], ss[2]>>
    BY <1>3
  <2> DEFINE a == ss[1]
             b == ss[2]
  <2> HIDE DEF a, b
  <2>2. Tail(<<a, b>>) = <<b>> /\ Head(<<a, b>>) = a /\ Len(<<b>>) = 1 /\ <<b>> # <<>>
        /\ Head(<<b>>) = b /\ <<b>>[1] = b
    BY <1>0, Zenon
  <2>3. Tail(ss) = <<b>> /\ Head(ss) = ss[1]
    BY <2>1, <2>2, Zenon DEF a, b
  <2>4. QED
    BY <1>1, <1>3, <2>2, <2>3 DEF b
<1>4. CASE Len(ss) = 0
  BY <1>4
<1>5. QED
  BY <1>2, <1>3, <1>4

\* The second session is at hand once the first is over.
LEMMA NextSession ==
    ASSUME NEW p, NEW ab, NEW ss \in Seq(Sessions(p, ab)), ss # <<>>, Followed(p, ss)
    PROVE  /\ Tail(ss) \in Seq(Sessions(p, ab)) /\ Followed(p, Tail(ss))
           /\ Len(ss) = 1 => Tail(ss) = <<>> /\ ~Head(ss).optional
           /\ Len(ss) # 1 => /\ Len(ss) = 2 /\ Len(Tail(ss)) = 1 /\ Tail(ss) # <<>>
                             /\ Head(Tail(ss)) = ss[2] /\ PutsEntry(p, ss[2])
<1>1. Len(ss) \in {0, 1, 2}
  BY DEF Followed
<1> DEFINE rest == Tail(ss)
<1>2. /\ rest \in Seq(Sessions(p, ab)) /\ Head(ss) = ss[1]
      /\ Len(ss) = 1 => rest = <<>>
      /\ Len(ss) # 1 => /\ Len(ss) = 2 /\ Len(rest) = 1 /\ rest # <<>>
                        /\ Head(rest) = ss[2] /\ rest[1] = ss[2]
  BY <1>1, OneOrTwo
<1> HIDE DEF rest
<1>3. CASE Len(ss) = 1
  <2>1. Len(rest) = 0
    BY <1>2, <1>3
  <2>2. Followed(p, rest)
    BY <2>1 DEF Followed
  <2>3. QED
    BY <1>2, <1>3, <2>2 DEF Followed, rest
<1>4. CASE Len(ss) # 1
  <2>1. PutsEntry(p, ss[2])
    BY <1>2, <1>4 DEF Followed
  <2>2. ~ss[2].optional
    BY <2>1 DEF PutsEntry
  <2>3. Followed(p, rest)
    BY <1>2, <1>4, <2>2 DEF Followed
  <2>4. QED
    BY <1>2, <1>4, <2>1, <2>3 DEF rest
<1>5. QED
  BY <1>3, <1>4

\* A session that ends in an error.
LEMMA BrokenInv ==
    ASSUME IInv, pc \in {"lines", "save"}, Broken, left' = <<>>, rejected' = FALSE,
           running' = running, startup' = startup, op' = op, UNCHANGED hist,
           ops' = ops, crashes' = crashes, faults' \in 0..MaxFailures
    PROVE  IInv'
<1>1. /\ todo # <<>> /\ todo \in Seq(Sessions(op, about)) /\ Followed(op, todo)
      /\ OpOK(op, about)
  BY DEF IInv, Shape, OpInv
<1>2. /\ Tail(todo) \in Seq(Sessions(op, about)) /\ Followed(op, Tail(todo))
      /\ Len(todo) = 1 => Tail(todo) = <<>> /\ ~Head(todo).optional
      /\ Len(todo) # 1 => /\ Len(todo) = 2 /\ Len(Tail(todo)) = 1 /\ Tail(todo) # <<>>
                          /\ Head(Tail(todo)) = todo[2] /\ PutsEntry(op, todo[2])
  BY <1>1, NextSession
<1>3. /\ unsaved' = TRUE
      /\ about' = about /\ drifts' = drifts /\ promised' = promised
      /\ Head(todo).optional => pc' = "session" /\ todo' = Tail(todo) /\ answer' = answer
      /\ ~Head(todo).optional => pc' = "idle" /\ todo' = <<>> /\ answer' = "error"
  BY DEF Broken, hist
<1>4. Bounds' /\ SavedInv' /\ SuccessLasts'
  BY <1>3 DEF IInv, Bounds, SavedInv, SuccessLasts
<1>5. CASE ~Head(todo).optional
  <2>1. Shape'
    BY <1>3, <1>5 DEF IInv, Shape
  <2>2. OpInv' /\ GoalInv' /\ DropInv'
    BY <1>3, <1>5 DEF OpInv, GoalInv, DropInv
  <2>3. QED
    BY <1>4, <2>1, <2>2 DEF IInv
<1>6. CASE Head(todo).optional
  <2>1. /\ pc' = "session" /\ todo' = Tail(todo) /\ Len(todo') = 1 /\ todo' # <<>>
        /\ Head(todo') = todo[2] /\ PutsEntry(op, todo[2])
    BY <1>2, <1>3, <1>6
  <2>2. Shape'
    BY <2>1 DEF IInv, Shape
  <2>3. OpInv'
    BY <1>2, <1>3, <2>1 DEF IInv, OpInv
  <2>4. Current' = todo[2].lines
    BY <2>1 DEF Current
  <2>5. WillReach(running', todo[2].lines, op, about) /\ DropsFirst(running', todo[2].lines, op)
    BY <2>1, PutsEntryReaches
  <2>6. GoalInv' /\ DropInv'
    BY <1>3, <2>1, <2>4, <2>5 DEF GoalInv, DropInv
  <2>7. QED
    BY <1>4, <2>2, <2>3, <2>6 DEF IInv
<1>7. QED
  BY <1>5, <1>6

\* A session ends, in an error if one of its lines was rejected.
LEMMA EndSessionInv == ASSUME IInv, EndSession PROVE IInv'
<1>1. /\ pc = "lines" /\ left = <<>> /\ left' = <<>> /\ rejected' = FALSE
      /\ running' = running /\ startup' = startup /\ op' = op
      /\ about' = about /\ drifts' = drifts /\ promised' = promised
      /\ ops' = ops /\ faults' = faults /\ crashes' = crashes
  BY DEF EndSession, Over, hist, conf
<1>2. CASE rejected
  <2>1. Broken
    BY <1>2 DEF EndSession
  <2>2. faults' \in 0..MaxFailures
    BY <1>1 DEF IInv, Bounds
  <2>3. QED
    BY <1>1, <2>1, <2>2, BrokenInv DEF hist
<1>3. CASE ~rejected
  <2>1. pc' = "save" /\ todo' = todo /\ answer' = answer /\ unsaved' = unsaved
    BY <1>3 DEF EndSession
  <2>2. Current' = Current
    BY <1>1, <2>1 DEF Current
  <2>3. Shape' /\ Bounds'
    BY <1>1, <1>3, <2>1 DEF IInv, Shape, Bounds
  <2>4. OpInv'
    BY <1>1, <2>1 DEF IInv, OpInv
  <2>5. GoalInv' /\ DropInv'
    BY <1>1, <1>3, <2>1, <2>2 DEF IInv, GoalInv, DropInv
  <2>6. SavedInv' /\ SuccessLasts'
    BY <1>1, <2>1 DEF IInv, SavedInv, SuccessLasts
  <2>7. QED
    BY <2>3, <2>4, <2>5, <2>6 DEF IInv
<1>4. QED
  BY <1>2, <1>3

\* A line that cannot be built ends the operation.
LEMMA UnbuiltInv == ASSUME IInv, Unbuilt PROVE IInv'
<1>1. /\ pc = "session" /\ pc' = "idle" /\ todo' = <<>> /\ answer' = "error"
      /\ running' = running /\ startup' = startup /\ left' = left /\ rejected' = rejected
      /\ about' = about /\ drifts' = drifts /\ promised' = promised /\ unsaved' = unsaved
      /\ ops' = ops /\ faults' = faults /\ crashes' = crashes
  BY DEF Unbuilt, hist, conf, vtysh
<1>2. Shape' /\ Bounds'
  BY <1>1 DEF IInv, Shape, Bounds
<1>3. OpInv' /\ GoalInv' /\ DropInv' /\ SavedInv' /\ SuccessLasts'
  BY <1>1 DEF IInv, OpInv, GoalInv, DropInv, SavedInv, SuccessLasts
<1>4. QED
  BY <1>2, <1>3 DEF IInv

\* Failures are bounded.
LEMMA FaultCounted == ASSUME IInv, Fault PROVE faults' \in 0..MaxFailures
BY BgpAssumption DEF IInv, Bounds, Fault

\* A session fails half-way.
LEMMA SessionFailsInv == ASSUME IInv, SessionFails PROVE IInv'
<1>1. /\ pc = "lines" /\ Broken /\ Fault /\ left' = <<>> /\ rejected' = FALSE
      /\ running' = running /\ startup' = startup /\ op' = op /\ UNCHANGED hist
      /\ ops' = ops /\ crashes' = crashes
  BY DEF SessionFails, Over, conf
<1>2. faults' \in 0..MaxFailures
  BY <1>1, FaultCounted
<1>3. QED
  BY <1>1, <1>2, BrokenInv

\* No line left, nothing rejected: what was asked is there.
LEMMA WillReachDone ==
    ASSUME NEW cfg, Sound(cfg), NEW p, NEW ab, OpOK(p, ab), WillReach(cfg, <<>>, p, ab)
    PROVE  Reached(cfg, p, ab)
<1>1. CASE p.verb = "apply"
  <2>1. p.on \in Ids /\ p.want \in Objects(p.on.kind) /\ Leads(cfg, <<>>, p.on, p.want)
    BY <1>1 DEF OpOK, WillReach
  <2>2. cfg[p.on] = p.want
    BY <2>1, LeadsDone
  <2>3. QED
    BY <1>1, <2>2 DEF Reached
<1>2. CASE p.verb = "remove"
  <2>1. Len(<<>>) = 0
    OBVIOUS
  <2>2. \A i \in ab : i.kind = p.on.kind => cfg[i] = Absent
    BY <1>2, <2>1 DEF WillReach, Clears
  <2>3. QED
    BY <1>2, <2>2 DEF Reached
<1>3. QED
  BY <1>1, <1>2 DEF OpOK

\* What runs is saved, and the next session or the end follows.
LEMMA WriteMemoryInv == ASSUME IInv, WriteMemory PROVE IInv'
<1>1. /\ pc = "save" /\ running' = running /\ op' = op /\ UNCHANGED hist
      /\ about' = about /\ drifts' = drifts /\ promised' = promised
      /\ left' = left /\ rejected' = rejected /\ ops' = ops /\ crashes' = crashes
  BY DEF WriteMemory, vtysh, hist
<1>2. left = <<>> /\ rejected = FALSE /\ todo # <<>>
  BY <1>1 DEF IInv, Shape
<1>3. CASE Fault /\ Broken /\ UNCHANGED startup
  BY <1>1, <1>2, <1>3, FaultCounted, BrokenInv
<1>4. CASE /\ startup' = running /\ unsaved' = FALSE
           /\ pc' = "session" /\ todo' = Tail(todo) /\ UNCHANGED <<answer, faults>>
  <2>1. todo \in Seq(Sessions(op, about)) /\ Followed(op, todo) /\ OpOK(op, about) /\ Sound(running)
    BY <1>1 DEF IInv, OpInv, Shape
  <2>2. /\ Tail(todo) \in Seq(Sessions(op, about)) /\ Followed(op, Tail(todo))
        /\ Len(todo) = 1 => Tail(todo) = <<>>
        /\ Len(todo) # 1 => /\ Len(todo) = 2 /\ Len(Tail(todo)) = 1 /\ Tail(todo) # <<>>
                            /\ Head(Tail(todo)) = todo[2] /\ PutsEntry(op, todo[2])
    BY <1>2, <2>1, NextSession
  <2>3. Shape' /\ Bounds'
    BY <1>1, <1>2, <1>4 DEF IInv, Shape, Bounds
  <2>4. OpInv'
    BY <1>1, <1>4, <2>2 DEF IInv, OpInv
  <2>5. SavedInv'
    BY <1>1, <1>4 DEF SavedInv
  <2>6. SuccessLasts'
    BY <1>1, <1>4 DEF IInv, SuccessLasts
  <2>7. CASE Len(todo) = 1
    <3>1. todo' = <<>> /\ Current' = <<>>
      BY <1>1, <1>2, <1>4, <2>2, <2>7 DEF Current
    <3>2. ~drifts => Reached(running, op, about)
      <4>1. Current = <<>>
        BY <1>1, <1>2 DEF Current
      <4>2. ~drifts => WillReach(running, <<>>, op, about)
        BY <1>1, <1>2, <2>7, <4>1 DEF IInv, GoalInv
      <4>3. QED
        BY <2>1, <4>2, WillReachDone
    <3>3. Len(<<>>) = 0
      OBVIOUS
    <3>4. GoalInv'
      <4>1. pc' = "session" /\ running' = running /\ op' = op /\ about' = about
             /\ drifts' = drifts /\ Len(todo') = 0
        BY <1>1, <1>4, <3>1, <3>3
      <4>2. QED
        BY <3>1, <3>2, <4>1 DEF GoalInv
    <3>5. DropInv'
      BY <3>1, <3>3 DEF DropInv, DropsFirst
    <3>6. QED
      BY <2>3, <2>4, <2>5, <2>6, <3>4, <3>5 DEF IInv
  <2>8. CASE Len(todo) # 1
    <3>1. /\ todo' # <<>> /\ Len(todo') = 1 /\ Current' = todo[2].lines /\ PutsEntry(op, todo[2])
      BY <1>4, <2>2, <2>8 DEF Current
    <3>2. WillReach(running', todo[2].lines, op, about) /\ DropsFirst(running', todo[2].lines, op)
      BY <3>1, PutsEntryReaches
    <3>3. GoalInv' /\ DropInv'
      BY <1>1, <3>1, <3>2 DEF GoalInv, DropInv
    <3>4. QED
      BY <2>3, <2>4, <2>5, <2>6, <3>3 DEF IInv
  <2>9. QED
    BY <2>7, <2>8
<1>5. QED
  BY <1>3, <1>4 DEF WriteMemory

\* A success is a promise: the goal is reached, and saved unless unsaved says otherwise.
LEMMA FinishInv == ASSUME IInv, Finish PROVE IInv'
<1>1. /\ pc = "session" /\ todo = <<>> /\ pc' = "idle" /\ todo' = todo
      /\ running' = running /\ startup' = startup /\ left' = left /\ rejected' = rejected
      /\ about' = about /\ drifts' = drifts /\ unsaved' = unsaved
      /\ ops' = ops /\ crashes' = crashes
  BY DEF Finish, conf, vtysh
<1>2. Shape' /\ OpInv' /\ GoalInv' /\ DropInv' /\ SavedInv'
  BY <1>1 DEF IInv, Shape, OpInv, GoalInv, DropInv, SavedInv
<1>3. CASE answer' = "error" /\ UNCHANGED promised /\ Fault
  <2>1. faults' \in 0..MaxFailures
    BY <1>3, FaultCounted
  <2>2. Bounds' /\ SuccessLasts'
    BY <1>1, <1>3, <2>1 DEF IInv, Bounds, SuccessLasts
  <2>3. QED
    BY <1>2, <2>2 DEF IInv
<1>4. CASE /\ answer' = "ok" /\ UNCHANGED faults
           /\ promised' = [i \in Ids |->
                CASE i # op.on /\ (op.verb = "apply" \/ i \notin about) -> promised[i]
                  [] i = op.on /\ ~drifts /\ ~unsaved                  -> op.want
                  [] i # op.on /\ i \in about /\ op.verb = "remove" /\ i.kind = op.on.kind
                     /\ ~unsaved                                       -> Absent
                  [] OTHER                                             -> NoPromise]
  <2>1. Bounds'
    BY <1>1, <1>4 DEF IInv, Bounds
  <2>2. /\ OpOK(op, about) /\ (~drifts => Reached(running, op, about))
        /\ (op.verb = "remove" => ~drifts) /\ (~unsaved => startup = running)
    BY <1>1 DEF IInv, OpInv, GoalInv, SavedInv
  <2>3. ~drifts => running[op.on] = op.want
    BY <2>2 DEF Reached, OpOK
  <2>4. op.verb = "remove" => \A i \in about : i.kind = op.on.kind => running[i] = Absent
    BY <2>2 DEF Reached
  <2>5. ASSUME NEW i \in Ids, promised'[i] # NoPromise
        PROVE  running[i] = promised'[i] /\ startup[i] = promised'[i]
    <3>1. CASE i # op.on /\ (op.verb = "apply" \/ i \notin about)
      <4>1. promised'[i] = promised[i]
        BY <1>4, <3>1
      <4>2. QED
        BY <2>5, <4>1 DEF IInv, SuccessLasts
    <3>2. CASE i = op.on /\ ~drifts /\ ~unsaved
      <4>1. promised'[i] = op.want
        BY <1>4, <3>2
      <4>2. QED
        BY <2>2, <2>3, <3>2, <4>1
    <3>3. CASE i # op.on /\ i \in about /\ op.verb = "remove" /\ i.kind = op.on.kind /\ ~unsaved
      <4>1. promised'[i] = Absent
        BY <1>4, <3>3
      <4>2. QED
        BY <2>2, <2>4, <3>3, <4>1
    <3>4. QED
      BY <1>4, <2>5, <3>1, <3>2, <3>3
  <2>6. SuccessLasts'
    BY <1>1, <2>5 DEF SuccessLasts
  <2>7. QED
    BY <1>2, <2>1, <2>6 DEF IInv
<1>5. QED
  BY <1>3, <1>4 DEF Finish

\* The agent dies.
LEMMA CrashInv == ASSUME IInv, Crash PROVE IInv'
<1>1. /\ pc # "idle" /\ crashes < MaxCrashes /\ crashes' = crashes + 1
      /\ pc' = "idle" /\ todo' = <<>> /\ answer' = "none" /\ left' = <<>> /\ rejected' = FALSE
      /\ unsaved' = (unsaved \/ pc \in {"lines", "save"})
      /\ running' = running /\ startup' = startup
      /\ about' = about /\ drifts' = drifts /\ promised' = promised
      /\ ops' = ops /\ faults' = faults
  BY DEF Crash, Over, hist, conf
<1>2. Shape' /\ OpInv' /\ GoalInv' /\ DropInv' /\ SuccessLasts'
  BY <1>1 DEF IInv, Shape, OpInv, GoalInv, DropInv, SuccessLasts
<1>3. Bounds'
  <2>1. crashes' \in 0..MaxCrashes
    BY <1>1, BgpAssumption DEF IInv, Bounds
  <2>2. unsaved' \in BOOLEAN /\ answer' \in {"none", "ok", "error"}
    BY <1>1 DEF IInv, Bounds
  <2>3. QED
    BY <1>1, <2>1, <2>2 DEF IInv, Bounds
<1>4. SavedInv'
  BY <1>1 DEF IInv, Shape, SavedInv
<1>5. QED
  BY <1>2, <1>3, <1>4 DEF IInv

\* FRR comes back with what was saved.
LEMMA RestartInv == ASSUME IInv, Restart PROVE IInv'
<1>1. /\ pc = "idle" /\ crashes < MaxCrashes /\ crashes' = crashes + 1
      /\ running' = startup /\ unsaved' = FALSE /\ answer' = "none" /\ startup' = startup
      /\ pc' = pc /\ todo' = todo /\ left' = left /\ rejected' = rejected
      /\ about' = about /\ drifts' = drifts /\ promised' = promised
      /\ ops' = ops /\ faults' = faults
  BY DEF Restart, hist, vtysh
<1>2. Shape' /\ OpInv' /\ GoalInv' /\ DropInv' /\ SuccessLasts' /\ SavedInv'
  BY <1>1 DEF IInv, Shape, OpInv, GoalInv, DropInv, SuccessLasts, SavedInv
<1>3. Bounds'
  <2>1. crashes' \in 0..MaxCrashes
    BY <1>1, BgpAssumption DEF IInv, Bounds
  <2>2. unsaved' \in BOOLEAN /\ answer' \in {"none", "ok", "error"}
    BY <1>1
  <2>3. QED
    BY <1>1, <2>1, <2>2 DEF IInv, Bounds
<1>4. QED
  BY <1>2, <1>3 DEF IInv

\* An operation begins with a plan that leads to its goal.
LEMMA AskedBegins ==
    ASSUME IInv, NEW kind, NEW n \in Nat, NEW r \in Asked(kind), NEW ok \in Reads(n), NEW plan,
           PlanOK(running, plan, AnOp("apply", r, ok), Scope("apply", r, ok),
                  Drifts("apply", r, ok)),
           Begin("apply", r, plan, ok)
    PROVE  IInv'
<1>1. r \in Requests
  BY DEF Asked
<1>2. /\ OpOK(AnOp("apply", r, ok), Scope("apply", r, ok))
      /\ ProcessKnown(running, AnOp("apply", r, ok), Scope("apply", r, ok))
  BY <1>1, ApplyOK
<1>3. QED
  BY <1>2, BeginInv

\* So does a removal.
LEMMA RemovalBegins ==
    ASSUME IInv, NEW r, r.on \in Ids, r.on.kind # "bgp", NEW n \in Nat, NEW ok \in Reads(n),
           NEW plan,
           PlanOK(running, plan, AnOp("remove", r, ok), Scope("remove", r, ok),
                  Drifts("remove", r, ok)),
           Begin("remove", r, plan, ok)
    PROVE  IInv'
<1>1. /\ OpOK(AnOp("remove", r, ok), Scope("remove", r, ok))
      /\ ProcessKnown(running, AnOp("remove", r, ok), Scope("remove", r, ok))
  BY RemoveOK
<1>2. QED
  BY <1>1, BeginInv

\* Every step keeps the invariant.
LEMMA NextInv == IInv /\ [Next]_vars => IInv'
<1> SUFFICES ASSUME IInv, [Next]_vars PROVE IInv'
  OBVIOUS
<1>0. Sound(running)
  BY DEF IInv, Shape
<1>1. CASE ApplyPrefixList
  <2>1. PICK r \in Asked("prefix"), ok \in Reads(3) : Begin("apply", r, PrefixPlan(r, ok), ok)
    BY <1>1 DEF ApplyPrefixList
  <2>2. QED
    BY <1>0, <2>1, PrefixPlanOK, AskedBegins
<1>2. CASE ApplyCommunityList
  <2>1. PICK r \in Asked("community"), ok \in Reads(2) :
          Begin("apply", r, CommunityPlan(r, ok), ok)
    BY <1>2 DEF ApplyCommunityList
  <2>2. QED
    BY <1>0, <2>1, CommunityPlanOK, AskedBegins
<1>3. CASE ApplyRouteMap
  <2>1. PICK r \in Asked("map"), ok \in Reads(2) :
          \E plan \in MapPlans(r, ok) : Begin("apply", r, plan, ok)
    BY <1>3 DEF ApplyRouteMap
  <2>2. PICK plan \in MapPlans(r, ok) : Begin("apply", r, plan, ok)
    BY <2>1
  <2>3. QED
    BY <1>0, <2>2, MapPlanOK, AskedBegins
<1>4. CASE RemovePrefixList \/ RemoveCommunityList \/ RemoveRouteMap
  <2>1. PICK kind \in {"prefix", "community", "map"} :
          \E r \in Removals(kind), ok \in Reads(1) : Begin("remove", r, RemovalPlan(r.on, ok), ok)
    BY <1>4 DEF RemovePrefixList, RemoveCommunityList, RemoveRouteMap
  <2>2. PICK r \in Removals(kind), ok \in Reads(1) : Begin("remove", r, RemovalPlan(r.on, ok), ok)
    BY <2>1
  <2>3. r.on \in Ids /\ r.on.kind \in {"prefix", "community", "map"}
    BY DEF Removals
  <2>4. QED
    BY <2>2, <2>3, RemovalPlanOK, RemovalBegins
<1>5. CASE HandleBgpNeighbor
  <2>1. PICK r \in Asked("neighbor"), ok \in Reads(3) :
          Begin("apply", r, NeighborPlan(r, ok), ok)
    BY <1>5 DEF HandleBgpNeighbor
  <2>2. QED
    BY <1>0, <2>1, NeighborPlanOK, AskedBegins
<1>6. CASE RemoveBgpNeighbor
  <2>1. PICK r \in Removals("neighbor"), ok \in Reads(2) :
          Begin("remove", r, NeighborRemovalPlan(r.on, ok), ok)
    BY <1>6 DEF RemoveBgpNeighbor
  <2>2. r.on \in Ids /\ r.on.kind # "bgp" /\ r.on \in Neighbors
    BY DEF Removals, Neighbors
  <2>3. QED
    BY <1>0, <2>1, <2>2, NeighborRemovalPlanOK, RemovalBegins
<1>7. CASE SetBgpConfig
  <2>1. PICK r \in Asked("bgp"), ok \in Reads(1) : Begin("apply", r, ConfigPlan(r, ok), ok)
    BY <1>7 DEF SetBgpConfig
  <2>2. QED
    BY <1>0, <2>1, ConfigPlanOK, AskedBegins
<1>8. CASE UNCHANGED vars
  BY <1>8 DEF vars, conf, vtysh, hist, IInv, Shape, Bounds, OpInv, GoalInv, DropInv, SavedInv,
              SuccessLasts, Current
<1>9. QED
  BY <1>1, <1>2, <1>3, <1>4, <1>5, <1>6, <1>7, <1>8, StartSessionInv, UnbuiltInv, RunLineInv, EndSessionInv,
     SessionFailsInv, WriteMemoryInv, FinishInv, CrashInv, RestartInv DEF Next
-----------------------------------------------------------------------------
(* Theorems. *)

\* The invariant holds throughout.
THEOREM Invariance == Spec => []IInv
<1>1. QED
  BY InitInv, NextInv, PTL DEF Spec

\* What an operation was answered with success for stays, running and saved, until an
\* operation is about the object again, but for the exceptions of Drifts and for a success
\* on top of a session that was not saved.
THEOREM SuccessIsKept == Spec => []SuccessLasts
<1>1. IInv => SuccessLasts
  BY DEF IInv
<1>2. QED
  BY <1>1, Invariance, PTL

\* Every variable has its type.
THEOREM TypeCorrect == Spec => []TypeOK
<1>1. IInv => TypeOK
  <2> SUFFICES ASSUME IInv PROVE TypeOK
    OBVIOUS
  <2>1. /\ running = [i \in Ids |-> running[i]] /\ startup = [i \in Ids |-> startup[i]]
        /\ \A i \in Ids : running[i] = Absent \/ running[i] \in Objects(i.kind)
        /\ \A i \in Ids : startup[i] = Absent \/ startup[i] \in Objects(i.kind)
    BY DEF IInv, Shape, Sound
  <2>2. QED
    BY <2>1 DEF IInv, Shape, Bounds, TypeOK
<1>2. QED
  BY <1>1, Invariance, PTL

\* While an operation is under way, nothing it is not about changes.
THEOREM SiblingsStay == Spec => SiblingsUntouched
<1>1. IInv /\ [Next]_vars => (pc # "idle" => \A i \in Ids \ about : running'[i] = running[i])
  <2> SUFFICES ASSUME IInv, [Next]_vars, pc # "idle"
               PROVE  \A i \in Ids \ about : running'[i] = running[i]
    OBVIOUS
  <2>1. RunLine \/ running' = running
    BY DEF Next, vars, conf, StartSession, Unbuilt, EndSession, SessionFails, WriteMemory, Finish, Crash,
           Restart, ApplyPrefixList, ApplyCommunityList, ApplyRouteMap, RemovePrefixList,
           RemoveCommunityList, RemoveRouteMap, HandleBgpNeighbor, RemoveBgpNeighbor, SetBgpConfig,
           Begin
  <2>2. QED
    BY <2>1, RunLineFacts
<1>2. QED
  BY <1>1, Invariance, PTL DEF Spec, SiblingsUntouched

\* What is as asked and could be read is never taken away on the way.
THEOREM RepushHarmless == Spec => RepushIsHarmless
<1> DEFINE AsWanted == /\ pc # "idle" /\ op.verb = "apply" /\ running[op.on] = op.want
                       /\ ~op.blind /\ ~op.reworded
<1>1. IInv /\ [Next]_vars => (AsWanted => running'[op.on] = op.want)
  <2> SUFFICES ASSUME IInv, [Next]_vars, pc # "idle", op.verb = "apply",
                      running[op.on] = op.want, ~op.blind, ~op.reworded
               PROVE  running'[op.on] = op.want
    OBVIOUS
  <2>1. RunLine \/ running' = running
    BY DEF Next, vars, conf, StartSession, Unbuilt, EndSession, SessionFails, WriteMemory, Finish, Crash,
           Restart, ApplyPrefixList, ApplyCommunityList, ApplyRouteMap, RemovePrefixList,
           RemoveCommunityList, RemoveRouteMap, HandleBgpNeighbor, RemoveBgpNeighbor, SetBgpConfig,
           Begin
  <2>2. CASE RunLine
    <3>1. /\ Head(left) \in Lines(op, about) /\ left \in Seq(Lines(op, about)) /\ left # <<>>
          /\ pc = "lines" /\ running' = Applied(running, Head(todo), Head(left))
          /\ OpOK(op, about)
      BY <2>2, RunLineFacts
    <3>2. Head(left) = left[1] /\ 1 \in 1..Len(left)
      BY <3>1, HeadAndTail
    <3>3. Current = left
      BY <3>1 DEF Current
    <3>4. ~IsDrop(Head(left))
      BY <3>2, <3>3 DEF IInv, DropInv, DropsFirst
    <3>5. Sound(running) /\ op.on \in Ids /\ op.want \in Objects(op.on.kind)
      BY <3>1 DEF IInv, Shape, OpOK
    <3>6. QED
      BY <3>1, <3>4, <3>5, WantedStays
  <2>3. QED
    BY <2>1, <2>2
<1>2. QED
  BY <1>1, Invariance, PTL DEF Spec, RepushIsHarmless
=============================================================================
