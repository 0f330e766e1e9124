--------------------------- MODULE GateGraphProofs ---------------------------
(***************************************************************************)
(* For every set of addresses and every depth: no list of links and no raw *)
(* pointer is ever wrong, whatever destructors run inside Link::setInput   *)
(* and of each other.                                                      *)
(*                                                                         *)
(* The argument.  A destructor deletes the links of one gate, and the gate *)
(* of the link that is being moved is above every gate that is destroyed   *)
(* meanwhile, for they hang below the input it just lost (Layered).  So    *)
(* the moved link outlives the interruption, and so does what it owns,     *)
(* though no list names it.                                                *)
(***************************************************************************)
EXTENDS GateGraph, TLAPS, FiniteSetTheorems

\* At most one setInput is running.
OneMoving == \A l, m \in moving : l = m

\* Some levels put gates above their inputs, each destructor above those it
\* started, and the gate of the moved link above all of them.
Layered ==
  \E r \in [Gate -> Rank] :
    /\ Levels(r)
    /\ \A i, j \in DOMAIN dying : i < j => r[dying[j]] < r[dying[i]]
    /\ \A l \in moving, i \in DOMAIN dying : r[dying[i]] < r[dst[l]]

IInv ==
  /\ TypeOK /\ NoDangling /\ OutputsAgree /\ InputsAgree /\ DestroyedOnce /\ Owned
  /\ OneMoving /\ Layered

-----------------------------------------------------------------------------
(* Dropping an owner.                                                      *)

\* Either x has an owner left and nothing runs, or its destructor starts.
LEMMA DropCases ==
  ASSUME NEW x, dying' = Dropped(x)
  PROVE  \/ /\ dying' = dying
            /\ x \in held' \/ \E m \in links' : src'[m] = x
         \/ /\ dying' = Append(dying, x)
            /\ x \notin held' /\ \A m \in links' : src'[m] # x
  BY DEF Dropped, WithoutOwner

\* What is on the stack once x may have been pushed.
LEMMA PushFacts ==
  ASSUME dying \in Seq(Gate), NEW x \in Gate, dying' = Append(dying, x)
  PROVE  /\ dying' \in Seq(Gate)
         /\ DOMAIN dying = 1 .. Len(dying)
         /\ DOMAIN dying' = 1 .. Len(dying) + 1
         /\ \A i \in DOMAIN dying : dying'[i] = dying[i]
         /\ dying'[Len(dying) + 1] = x
         /\ Len(dying) \in Nat
  OBVIOUS

-----------------------------------------------------------------------------
(* One lemma for each action.                                              *)

LEMMA InitIInv == Init => IInv
  <1> SUFFICES ASSUME Init PROVE IInv
    OBVIOUS
  <1>1. TypeOK
    BY DEF Init, TypeOK
  <1>2. Layered
    <2>1. PICK n \in Rank : TRUE
      BY RankAssumption
    <2> DEFINE r == [g \in Gate |-> n]
    <2>2. r \in [Gate -> Rank]
      BY <2>1
    <2>3. Levels(r) /\ DOMAIN dying = {}
      BY DEF Init, Levels
    <2> QED
      BY <2>2, <2>3 DEF Layered
  <1> QED
    BY <1>1, <1>2 DEF Init, IInv, NoDangling, OutputsAgree, InputsAgree, DestroyedOnce,
                      Owned, OneMoving

LEMMA HoldIInv == ASSUME IInv, NEW g \in alive \ held, Hold(g) PROVE IInv'
  <1>1. DOMAIN dying = {}
    BY DEF Hold, Idle
  <1>2. TypeOK'
    BY DEF Hold, IInv, TypeOK
  <1>3. NoDangling' /\ OutputsAgree' /\ InputsAgree' /\ OneMoving'
    BY DEF Hold, IInv, NoDangling, OutputsAgree, InputsAgree, OneMoving
  <1>4. DestroyedOnce'
    BY <1>1 DEF Hold, DestroyedOnce
  <1>5. Owned'
    BY DEF Hold, IInv, Owned
  <1>6. Layered'
    BY DEF Hold, IInv, Layered, Levels
  <1> QED
    BY <1>2, <1>3, <1>4, <1>5, <1>6 DEF IInv

LEMMA ReleaseIInv == ASSUME IInv, NEW g \in held, Release(g) PROVE IInv'
  <1>1. /\ dying = <<>> /\ DOMAIN dying = {} /\ Len(dying) = 0 /\ dying \in Seq(Gate)
        /\ g \in alive /\ g \in Gate /\ dying' = Dropped(g)
    BY DEF Release, Idle, IInv, TypeOK
  <1>2. UNCHANGED <<alive, links, src, dst, ins, outs, moving>> /\ held' = held \ {g}
    BY DEF Release
  <1>3. NoDangling' /\ OutputsAgree' /\ InputsAgree' /\ OneMoving'
    BY <1>2 DEF IInv, NoDangling, OutputsAgree, InputsAgree, OneMoving
  <1>4. CASE dying' = dying /\ (g \in held' \/ \E m \in links' : src'[m] = g)
    <2>1. TypeOK'
      BY <1>2, <1>4 DEF IInv, TypeOK
    <2>2. DestroyedOnce'
      BY <1>1, <1>4 DEF DestroyedOnce
    <2>3. Owned'
      BY <1>1, <1>2, <1>4 DEF IInv, Owned
    <2>4. Layered'
      BY <1>2, <1>4 DEF IInv, Layered, Levels
    <2> QED
      BY <1>3, <2>1, <2>2, <2>3, <2>4 DEF IInv
  <1>5. CASE dying' = Append(dying, g) /\ g \notin held' /\ \A m \in links' : src'[m] # g
    <2>1. dying' \in Seq(Gate) /\ DOMAIN dying' = 1 .. 1 /\ dying'[1] = g
      BY <1>1, <1>5, PushFacts
    <2>2. TypeOK'
      BY <1>2, <2>1 DEF IInv, TypeOK
    <2>3. DestroyedOnce'
      BY <1>1, <1>2, <1>5, <2>1 DEF DestroyedOnce
    <2>4. Owned'
      BY <1>1, <1>2, <2>1 DEF IInv, Owned
    <2>5. Layered'
      <3>1. PICK r \in [Gate -> Rank] : Levels(r)
        BY DEF IInv, Layered
      <3>2. Levels(r)'
        BY <1>2, <3>1 DEF Levels
      <3>3. moving' = {}
        BY <1>2 DEF Release, Idle
      <3> QED
        BY <2>1, <3>1, <3>2, <3>3 DEF Layered
    <2> QED
      BY <1>3, <2>2, <2>3, <2>4, <2>5 DEF IInv
  <1> QED
    BY <1>1, <1>4, <1>5, DropCases

\* The link in slot s of a new gate.
LEMMA EntryFact ==
  ASSUME NEW D, NEW new \in [D -> Link], \A s, t \in D : new[s] = new[t] => s = t,
         NEW s \in D
  PROVE  Entry(new, new[s]) = s
  BY DEF Entry

LEMMA MakeIInv ==
  ASSUME IInv, NEW g \in Gate \ alive, NEW arity \in 0 .. 2,
         NEW new \in [1 .. arity -> Link \ links], NEW inputs \in [1 .. arity -> alive],
         \A s, t \in 1 .. arity : new[s] = new[t] => s = t,
         Make(g, new, inputs)
  PROVE  IInv'
  <1>1. /\ dying = <<>> /\ moving = {} /\ DOMAIN dying = {}
        /\ dying' = <<>> /\ moving' = {} /\ DOMAIN dying' = {}
    BY DEF Make, Idle
  <1>2. /\ alive' = alive \cup {g} /\ held' = held \cup {g}
        /\ links' = links \cup {new[s] : s \in 1 .. arity}
        /\ DOMAIN new = 1 .. arity /\ new \in Seq(Link)
    BY DEF Make
  <1>3. \A m \in links : /\ m \in links' /\ src'[m] = src[m] /\ dst'[m] = dst[m]
                         /\ \A s \in 1 .. arity : new[s] # m
    BY <1>2 DEF Make
  <1>4. \A s \in 1 .. arity : /\ new[s] \in links' /\ new[s] \notin links
                             /\ src'[new[s]] = inputs[s] /\ dst'[new[s]] = g
    <2> TAKE s \in 1 .. arity
    <2>1. Entry(new, new[s]) = s
      BY EntryFact
    <2>2. new[s] \in links' /\ new[s] \notin links
      BY <1>2
    <2>3. src' = [m \in links' |-> IF m \in links THEN src[m] ELSE inputs[Entry(new, m)]]
      BY DEF Make
    <2>4. dst' = [m \in links' |-> IF m \in links THEN dst[m] ELSE g]
      BY DEF Make
    <2> QED
      BY <2>1, <2>2, <2>3, <2>4
  <1>5. \A m \in links' : m \in links \/ \E s \in 1 .. arity : new[s] = m
    BY <1>2
  <1>6. /\ alive \subseteq Gate /\ held \subseteq alive /\ links \subseteq Link
        /\ src \in [links -> Gate] /\ dst \in [links -> Gate] /\ ins \in [alive -> Seq(Link)]
        /\ outs \in [alive -> SUBSET Link]
    BY DEF IInv, TypeOK
  <1>7. NoDangling'
    <2> SUFFICES ASSUME NEW m \in links' PROVE src'[m] \in alive' /\ dst'[m] \in alive'
      BY DEF NoDangling
    <2>1. CASE m \in links
      BY <2>1, <1>2, <1>3 DEF IInv, NoDangling
    <2>2. CASE \E s \in 1 .. arity : new[s] = m
      BY <2>2, <1>2, <1>4
    <2> QED
      BY <2>1, <2>2, <1>5
  <1>8. /\ DOMAIN src' = links' /\ DOMAIN dst' = links' /\ DOMAIN ins' = alive'
        /\ DOMAIN outs' = alive' /\ ins'[g] = new /\ \A x \in alive : ins'[x] = ins[x]
        /\ src' = [m \in links' |-> src'[m]] /\ dst' = [m \in links' |-> dst'[m]]
        /\ ins' = [x \in alive' |-> ins'[x]] /\ outs' = [x \in alive' |-> outs'[x]]
    BY <1>2 DEF Make
  <1>9. \A x \in alive' : outs'[x] = (IF x = g THEN {} ELSE outs[x])
                                       \cup {new[s] : s \in {t \in 1 .. arity : inputs[t] = x}}
    BY <1>2 DEF Make
  <1>10. TypeOK'
    <2>1. links' \subseteq Link /\ alive' \subseteq Gate /\ held' \subseteq alive'
      BY <1>2, <1>6
    <2>2. \A m \in links' : src'[m] \in Gate /\ dst'[m] \in Gate
      BY <1>7, <2>1 DEF NoDangling
    <2>3. \A x \in alive' : ins'[x] \in Seq(Link) /\ outs'[x] \subseteq Link
      BY <1>2, <1>6, <1>8, <1>9
    <2> QED
      BY <1>1, <1>8, <2>1, <2>2, <2>3 DEF TypeOK
  <1>11. OutputsAgree'
    <2> SUFFICES ASSUME NEW x \in alive'
                 PROVE outs'[x] = {m \in links' : src'[m] = x}
      BY <1>1 DEF OutputsAgree
    <2>1. (IF x = g THEN {} ELSE outs[x]) = {m \in links : src[m] = x}
      BY <1>1, <1>2 DEF IInv, OutputsAgree, NoDangling
    <2>2. \A m \in links' : src'[m] = x
            <=> (m \in links /\ src[m] = x) \/ \E s \in 1 .. arity : new[s] = m /\ inputs[s] = x
      BY <1>3, <1>4, <1>5
    <2> QED
      BY <1>2, <1>9, <2>1, <2>2
  <1>12. InputsAgree'
    <2>1. \A x \in alive' : \A s \in DOMAIN ins'[x] :
            ins'[x][s] \in links' /\ dst'[ins'[x][s]] = x
      BY <1>2, <1>3, <1>4, <1>8 DEF IInv, InputsAgree
    <2>2. \A x \in alive' : \A s, t \in DOMAIN ins'[x] : ins'[x][s] = ins'[x][t] => s = t
      BY <1>2, <1>8 DEF IInv, InputsAgree
    <2>3. \A m \in links' : \E s \in DOMAIN ins'[dst'[m]] : ins'[dst'[m]][s] = m
      BY <1>2, <1>3, <1>4, <1>5, <1>8 DEF IInv, InputsAgree, NoDangling
    <2> QED
      BY <2>1, <2>2, <2>3 DEF InputsAgree
  <1>13. DestroyedOnce' /\ OneMoving'
    BY <1>1 DEF DestroyedOnce, OneMoving
  <1>14. Owned'
    BY <1>1, <1>2, <1>3 DEF IInv, Owned
  <1>15. Layered'
    <2>1. PICK r \in [Gate -> Rank] :
            Levels(r) /\ \A s \in DOMAIN new : r[inputs[s]] < r[g]
      BY DEF Make
    <2>2. Levels(r)'
      BY <1>2, <1>3, <1>4, <1>5, <2>1 DEF Levels
    <2> QED
      BY <1>1, <2>1, <2>2 DEF Layered
  <1> QED
    BY <1>7, <1>10, <1>11, <1>12, <1>13, <1>14, <1>15 DEF IInv

\* The levels by which the caller of setInput makes no circle also tell that
\* nothing destroyed by it is the gate of the link.
LEMMA BeginIInv ==
  ASSUME IInv, NEW l \in links, NEW new \in alive, BeginSetInput(l, new)
  PROVE  IInv'
  <1> DEFINE old == src[l]
  <1>1. /\ dying = <<>> /\ moving = {} /\ DOMAIN dying = {} /\ Len(dying) = 0
        /\ dying \in Seq(Gate) /\ old \in Gate /\ old \in alive /\ dying' = Dropped(old)
    BY DEF BeginSetInput, Idle, IInv, TypeOK, NoDangling
  <1>2. /\ UNCHANGED <<alive, links, dst, ins, held>>
        /\ src' = [src EXCEPT ![l] = new] /\ moving' = {l} /\ outs' = Unlist(l)
    BY DEF BeginSetInput
  <1>3. /\ alive \subseteq Gate /\ src \in [links -> Gate] /\ outs \in [alive -> SUBSET Link]
        /\ links \subseteq Link
    BY DEF IInv, TypeOK
  <1>4. src'[l] = new /\ \A m \in links \ {l} : src'[m] = src[m]
    BY <1>2, <1>3
  <1>5. NoDangling' /\ InputsAgree' /\ OneMoving'
    BY <1>2, <1>4 DEF IInv, NoDangling, InputsAgree, OneMoving
  <1>6. \A x \in alive : outs'[x] = outs[x] \ {l}
    BY <1>1, <1>2, <1>3 DEF Unlist, IInv, OutputsAgree
  <1>7. OutputsAgree'
    BY <1>1, <1>2, <1>4, <1>6 DEF IInv, OutputsAgree
  <1>8. src' \in [links -> Gate] /\ outs' \in [alive -> SUBSET Link]
    BY <1>2, <1>3 DEF Unlist
  <1>9. PICK r \in [Gate -> Rank] : Levels(r) /\ r[new] < r[dst[l]]
    BY DEF BeginSetInput
  <1>10. Levels(r)' /\ r[old] < r[dst'[l]]
    BY <1>2, <1>4, <1>9 DEF Levels
  <1>11. CASE dying' = dying /\ (old \in held' \/ \E m \in links' : src'[m] = old)
    <2>1. TypeOK'
      BY <1>2, <1>8, <1>11 DEF IInv, TypeOK
    <2>2. DestroyedOnce'
      BY <1>1, <1>11 DEF DestroyedOnce
    <2>3. Owned'
      BY <1>1, <1>2, <1>4, <1>11 DEF IInv, Owned
    <2>4. Layered'
      BY <1>1, <1>10, <1>11 DEF Layered
    <2> QED
      BY <1>5, <1>7, <2>1, <2>2, <2>3, <2>4 DEF IInv
  <1>12. CASE dying' = Append(dying, old) /\ old \notin held' /\ \A m \in links' : src'[m] # old
    <2>1. dying' \in Seq(Gate) /\ DOMAIN dying' = 1 .. 1 /\ dying'[1] = old
      BY <1>1, <1>12, PushFacts
    <2>2. TypeOK'
      BY <1>2, <1>8, <2>1 DEF IInv, TypeOK
    <2>3. DestroyedOnce'
      BY <1>1, <1>2, <1>12, <2>1 DEF DestroyedOnce
    <2>4. Owned'
      BY <1>1, <1>2, <1>4, <2>1 DEF IInv, Owned
    <2>5. Layered'
      BY <1>2, <1>9, <1>10, <2>1 DEF Layered
    <2> QED
      BY <1>5, <1>7, <2>2, <2>3, <2>4, <2>5 DEF IInv
  <1> QED
    BY <1>1, <1>11, <1>12, DropCases

LEMMA EndIInv == ASSUME IInv, EndSetInput PROVE IInv'
  <1>1. PICK l \in moving : outs' = [outs EXCEPT ![src[l]] = @ \cup {l}]
    BY DEF EndSetInput
  <1>2. /\ dying = <<>> /\ DOMAIN dying = {} /\ moving' = {} /\ moving = {l}
        /\ UNCHANGED <<alive, links, src, dst, ins, held, dying>>
    BY <1>1 DEF EndSetInput, IInv, OneMoving
  <1>3. /\ l \in links /\ src[l] \in alive /\ l \in Link /\ outs \in [alive -> SUBSET Link]
    BY <1>1 DEF IInv, TypeOK, NoDangling
  <1>4. \A x \in alive : outs'[x] = IF x = src[l] THEN outs[x] \cup {l} ELSE outs[x]
    BY <1>1, <1>3
  <1>5. TypeOK'
    <2>1. outs' \in [alive -> SUBSET Link]
      BY <1>1, <1>3
    <2> QED
      BY <1>2, <2>1 DEF IInv, TypeOK
  <1>6. OutputsAgree'
    <2> SUFFICES ASSUME NEW x \in alive PROVE outs'[x] = {m \in links : src[m] = x}
      BY <1>2 DEF OutputsAgree
    <2>1. outs[x] = {m \in links \ {l} : src[m] = x}
      BY <1>2 DEF IInv, OutputsAgree
    <2> QED
      BY <1>3, <1>4, <2>1
  <1>7. NoDangling' /\ InputsAgree' /\ OneMoving' /\ DestroyedOnce' /\ Owned'
    BY <1>2 DEF IInv, NoDangling, InputsAgree, OneMoving, DestroyedOnce, Owned
  <1>8. Layered'
    <2>1. PICK r \in [Gate -> Rank] : Levels(r)
      BY DEF IInv, Layered
    <2>2. Levels(r)'
      BY <1>2, <2>1 DEF Levels
    <2> QED
      BY <1>2, <2>2 DEF Layered
  <1> QED
    BY <1>5, <1>6, <1>7, <1>8 DEF IInv

LEMMA DeleteIInv == ASSUME IInv, DeleteLink PROVE IInv'
  <1> DEFINE g == innermost
             n == Len(dying)
             l == Head(ins[g])
             old == src[l]
  <1>1. /\ dying \in Seq(Gate) /\ n \in Nat /\ DOMAIN dying = 1 .. n /\ n \in 1 .. n
        /\ g = dying[n] /\ g \in alive /\ g \in Gate
    BY DEF DeleteLink, IInv, TypeOK, DestroyedOnce, innermost
  <1>2. /\ ins \in [alive -> Seq(Link)] /\ ins[g] \in Seq(Link) /\ ins[g] # <<>>
        /\ src \in [links -> Gate] /\ dst \in [links -> Gate]
        /\ outs \in [alive -> SUBSET Link] /\ links \subseteq Link
    BY <1>1 DEF DeleteLink, IInv, TypeOK
  <1>3. /\ Len(ins[g]) \in Nat /\ DOMAIN ins[g] = 1 .. Len(ins[g]) /\ 1 \in DOMAIN ins[g]
        /\ l = ins[g][1]
    BY <1>2
  <1>4. /\ l \in links /\ dst[l] = g /\ src[l] = old /\ old \in alive /\ old \in Gate
    BY <1>1, <1>2, <1>3 DEF IInv, InputsAgree, NoDangling
  <1>5. /\ links' = links \ {l} /\ src' = [m \in links' |-> src[m]]
        /\ dst' = [m \in links' |-> dst[m]] /\ ins' = [ins EXCEPT ![g] = Tail(@)]
        /\ outs' = Unlist(l) /\ UNCHANGED <<alive, held, moving>> /\ dying' = Dropped(old)
    BY DEF DeleteLink, Erased
  <1> HIDE DEF g, n, l, old
  <1>6. \A m \in links' : m \in links /\ m # l /\ src'[m] = src[m] /\ dst'[m] = dst[m]
    BY <1>5
  <1>7. \A m \in links : src[m] # g
    BY <1>1 DEF IInv, DestroyedOnce
  <1>8. PICK r \in [Gate -> Rank] :
          /\ Levels(r)
          /\ \A i, j \in DOMAIN dying : i < j => r[dying[j]] < r[dying[i]]
          /\ \A m \in moving, i \in DOMAIN dying : r[dying[i]] < r[dst[m]]
    BY DEF IInv, Layered
  <1>9. \A x \in Gate : r[x] \in Nat
    BY <1>8, RankAssumption
  <1>10. moving \subseteq links /\ l \notin moving
    <2>1. moving \subseteq links
      BY DEF IInv, TypeOK
    <2>2. r[g] < r[dst[l]] => FALSE
      BY <1>1, <1>4, <1>9
    <2> QED
      BY <1>1, <1>8, <2>1, <2>2
  <1>11. NoDangling' /\ OneMoving'
    BY <1>5, <1>6 DEF IInv, NoDangling, OneMoving
  <1>12. \A x \in alive : outs'[x] = IF x = old THEN outs[x] \ {l} ELSE outs[x]
    BY <1>2, <1>4, <1>5 DEF Unlist
  <1>13. OutputsAgree'
    <2> SUFFICES ASSUME NEW x \in alive
                 PROVE outs'[x] = {m \in links' \ moving : src'[m] = x}
      BY <1>5 DEF OutputsAgree
    <2>1. outs[x] = {m \in links \ moving : src[m] = x}
      BY DEF IInv, OutputsAgree
    <2>2. CASE x = old
      BY <1>4, <1>5, <1>6, <1>12, <2>1, <2>2
    <2>3. CASE x # old
      <3>1. \A m : m \in links \ moving /\ src[m] = x <=> m \in links' \ moving /\ src'[m] = x
        BY <1>4, <1>5, <1>6, <2>3
      <3>2. outs'[x] = outs[x]
        BY <1>12, <2>3
      <3> QED
        BY <2>1, <3>1, <3>2
    <2> QED
      BY <2>2, <2>3
  <1>14. ins'[g] = Tail(ins[g]) /\ \A x \in alive \ {g} : ins'[x] = ins[x]
    BY <1>1, <1>2, <1>5
  <1>15. /\ Tail(ins[g]) \in Seq(Link) /\ DOMAIN Tail(ins[g]) = 1 .. Len(ins[g]) - 1
         /\ \A s \in 1 .. Len(ins[g]) - 1 : Tail(ins[g])[s] = ins[g][s + 1]
    BY <1>2, <1>3
  <1>16. InputsAgree'
    <2>1. ASSUME NEW x \in alive, NEW s \in DOMAIN ins'[x]
          PROVE  ins'[x][s] \in links' /\ dst'[ins'[x][s]] = x
      <3>1. CASE x = g
        <4>0. s \in 1 .. Len(ins[g]) - 1
          BY <1>14, <1>15, <2>1, <3>1
        <4>1. s \in Nat /\ s + 1 \in DOMAIN ins[g] /\ s + 1 # 1
          BY <1>3, <4>0
        <4>2. ins'[x][s] = ins[g][s + 1]
          BY <1>14, <1>15, <3>1, <4>0
        <4>3. ins[g][s + 1] \in links /\ dst[ins[g][s + 1]] = g /\ ins[g][s + 1] # l
          BY <1>1, <1>3, <4>1 DEF IInv, InputsAgree
        <4> QED
          BY <1>5, <1>6, <3>1, <4>2, <4>3
      <3>2. CASE x # g
        <4>1. ins[x][s] \in links /\ dst[ins[x][s]] = x
          BY <1>14, <2>1, <3>2 DEF IInv, InputsAgree
        <4> QED
          BY <1>4, <1>5, <1>6, <1>14, <3>2, <4>1
      <3> QED
        BY <3>1, <3>2
    <2>2. ASSUME NEW x \in alive, NEW s \in DOMAIN ins'[x], NEW t \in DOMAIN ins'[x],
                 ins'[x][s] = ins'[x][t]
          PROVE  s = t
      <3>1. CASE x = g
        <4>0. s \in 1 .. Len(ins[g]) - 1 /\ t \in 1 .. Len(ins[g]) - 1
          BY <1>14, <1>15, <2>2, <3>1
        <4>1. s \in Nat /\ t \in Nat /\ s + 1 \in DOMAIN ins[g] /\ t + 1 \in DOMAIN ins[g]
          BY <1>3, <4>0
        <4>2. ins[g][s + 1] = ins[g][t + 1]
          BY <1>14, <1>15, <2>2, <3>1, <4>0
        <4>3. s + 1 = t + 1
          BY <1>1, <4>1, <4>2 DEF IInv, InputsAgree
        <4> QED
          BY <4>1, <4>3
      <3>2. CASE x # g
        BY <1>14, <2>2, <3>2 DEF IInv, InputsAgree
      <3> QED
        BY <3>1, <3>2
    <2>3. ASSUME NEW m \in links' PROVE \E s \in DOMAIN ins'[dst'[m]] : ins'[dst'[m]][s] = m
      <3>1. PICK s \in DOMAIN ins[dst[m]] : ins[dst[m]][s] = m
        BY <1>6 DEF IInv, InputsAgree
      <3>2. CASE dst[m] = g
        <4>1. s # 1 /\ s - 1 \in 1 .. Len(ins[g]) - 1
          BY <1>3, <1>6, <3>1, <3>2
        <4>2. Tail(ins[g])[s - 1] = m
          BY <1>3, <1>15, <3>1, <3>2, <4>1
        <4>3. DOMAIN ins'[g] = 1 .. Len(ins[g]) - 1 /\ ins'[g][s - 1] = m
          BY <1>14, <1>15, <4>2
        <4>4. dst'[m] = g
          BY <1>6, <3>2
        <4> QED
          BY <4>1, <4>3, <4>4
      <3>3. CASE dst[m] # g
        BY <1>6, <1>14, <3>1, <3>3 DEF IInv, NoDangling
      <3> QED
        BY <3>2, <3>3
    <2> QED
      BY <1>5, <2>1, <2>2, <2>3 DEF InputsAgree
  <1>17. r[old] < r[g] /\ Levels(r)'
    BY <1>4, <1>6, <1>8 DEF Levels
  <1>18. \A m \in moving : dst'[m] = dst[m]
    BY <1>5, <1>6, <1>10
  <1>19. /\ alive \subseteq Gate /\ held \subseteq alive /\ links' \subseteq Link
         /\ moving \subseteq links' /\ src' \in [links' -> Gate] /\ dst' \in [links' -> Gate]
         /\ ins' \in [alive -> Seq(Link)] /\ outs' \in [alive -> SUBSET Link]
    <2>1. ins' \in [alive -> Seq(Link)]
      BY <1>2, <1>5, <1>15
    <2>2. outs' \in [alive -> SUBSET Link]
      BY <1>2, <1>4, <1>5 DEF Unlist
    <2> QED
      BY <1>2, <1>5, <1>10, <2>1, <2>2 DEF IInv, TypeOK
  <1>20. CASE dying' = dying /\ (old \in held' \/ \E m \in links' : src'[m] = old)
    <2>1. TypeOK'
      BY <1>1, <1>5, <1>19, <1>20 DEF TypeOK
    <2>2. DestroyedOnce'
      BY <1>5, <1>6, <1>20 DEF IInv, DestroyedOnce
    <2>3. Owned'
      <3> SUFFICES ASSUME NEW x \in alive
                   PROVE \/ x \in held \/ \E m \in links' : src'[m] = x
                         \/ \E i \in DOMAIN dying : dying[i] = x
        BY <1>5, <1>20 DEF Owned
      <3>1. \/ x \in held \/ \E m \in links : src[m] = x
            \/ \E i \in DOMAIN dying : dying[i] = x
        BY DEF IInv, Owned
      <3>2. \A m \in links : m = l \/ m \in links'
        BY <1>5
      <3> QED
        BY <1>4, <1>5, <1>6, <1>20, <3>1, <3>2
    <2>4. Layered'
      BY <1>5, <1>8, <1>17, <1>18, <1>20 DEF Layered
    <2> QED
      BY <1>11, <1>13, <1>16, <2>1, <2>2, <2>3, <2>4 DEF IInv
  <1>21. CASE dying' = Append(dying, old) /\ old \notin held' /\ \A m \in links' : src'[m] # old
    <2>1. /\ dying' \in Seq(Gate) /\ DOMAIN dying' = 1 .. n + 1 /\ dying'[n + 1] = old
          /\ \A i \in 1 .. n : dying'[i] = dying[i]
      BY <1>1, <1>4, <1>21, PushFacts
    <2>2. TypeOK'
      BY <1>5, <1>19, <2>1 DEF TypeOK
    <2>3. \A i \in 1 .. n : dying[i] # old
      BY <1>1, <1>4 DEF IInv, DestroyedOnce
    <2>4. DestroyedOnce'
      <3>1. \A i \in 1 .. n + 1 :
              dying'[i] \in alive \ held /\ \A m \in links' : src'[m] # dying'[i]
        <4> TAKE i \in 1 .. n + 1
        <4>1. CASE i = n + 1
          BY <1>4, <1>5, <1>21, <2>1, <4>1
        <4>2. CASE i \in 1 .. n
          <5>1. dying[i] \in alive \ held /\ \A m \in links : src[m] # dying[i]
            BY <1>1, <4>2 DEF IInv, DestroyedOnce
          <5> QED
            BY <1>6, <2>1, <4>2, <5>1
        <4> QED
          BY <1>1, <4>1, <4>2
      <3>2. \A i, j \in 1 .. n + 1 : dying'[i] = dying'[j] => i = j
        BY <1>1, <2>1, <2>3 DEF IInv, DestroyedOnce
      <3> QED
        BY <1>5, <2>1, <3>1, <3>2 DEF DestroyedOnce
    <2>5. Owned'
      <3> SUFFICES ASSUME NEW x \in alive
                   PROVE \/ x \in held \/ \E m \in links' : src'[m] = x
                         \/ \E i \in 1 .. n + 1 : dying'[i] = x
        BY <1>5, <2>1 DEF Owned
      <3>1. \/ x \in held \/ \E m \in links : src[m] = x
            \/ \E i \in DOMAIN dying : dying[i] = x
        BY DEF IInv, Owned
      <3>2. \A m \in links : m = l \/ m \in links'
        BY <1>5
      <3>3. CASE \E m \in links : src[m] = x
        <4>1. CASE x = old
          BY <1>1, <2>1, <4>1
        <4>2. CASE x # old
          BY <1>4, <1>6, <3>2, <3>3, <4>2
        <4> QED
          BY <4>1, <4>2
      <3>4. CASE \E i \in DOMAIN dying : dying[i] = x
        BY <1>1, <2>1, <3>4
      <3> QED
        BY <3>1, <3>3, <3>4
    <2>6. Layered'
      <3>1. ASSUME NEW i \in 1 .. n PROVE r[old] < r[dying[i]]
        <4>1. dying[i] \in Gate /\ r[dying[i]] \in Nat /\ r[g] \in Nat /\ r[old] \in Nat
          BY <1>1, <1>4, <1>9
        <4>2. i < n => r[dying[n]] < r[dying[i]]
          BY <1>1, <1>8
        <4>3. i = n \/ i < n
          BY <1>1
        <4> QED
          BY <1>1, <1>17, <4>1, <4>2, <4>3
      <3>2. \A i, j \in 1 .. n + 1 : i < j => r[dying'[j]] < r[dying'[i]]
        BY <1>1, <1>8, <2>1, <3>1
      <3>3. \A m \in moving, i \in 1 .. n + 1 : r[dying'[i]] < r[dst'[m]]
        <4> SUFFICES ASSUME NEW m \in moving, NEW i \in 1 .. n + 1
                     PROVE  r[dying'[i]] < r[dst[m]]
          BY <1>18
        <4>1. r[g] < r[dst[m]] /\ dst[m] \in Gate
          BY <1>1, <1>2, <1>8, <1>10
        <4>2. r[old] < r[dst[m]]
          BY <1>1, <1>4, <1>9, <1>17, <4>1
        <4> QED
          BY <1>1, <1>8, <2>1, <4>2
      <3> QED
        BY <1>5, <1>17, <2>1, <3>2, <3>3 DEF Layered
    <2> QED
      BY <1>11, <1>13, <1>16, <2>2, <2>4, <2>5, <2>6 DEF IInv
  <1> QED
    BY <1>5, <1>20, <1>21, DropCases

LEMMA FreeIInv == ASSUME IInv, FreeGate PROVE IInv'
  <1> DEFINE g == innermost
             n == Len(dying)
  <1>1. /\ dying \in Seq(Gate) /\ n \in Nat /\ DOMAIN dying = 1 .. n /\ n \in 1 .. n
        /\ g = dying[n] /\ g \in alive /\ g \in Gate
    BY DEF FreeGate, IInv, TypeOK, DestroyedOnce, innermost
  <1>2. /\ ins[g] = <<>> /\ alive' = alive \ {g} /\ ins' = [x \in alive' |-> ins[x]]
        /\ outs' = [x \in alive' |-> outs[x]] /\ dying' = SubSeq(dying, 1, n - 1)
        /\ UNCHANGED <<links, src, dst, held, moving>>
    BY DEF FreeGate, Destroyed
  <1>3. /\ dying' \in Seq(Gate) /\ DOMAIN dying' = 1 .. n - 1
        /\ \A i \in 1 .. n - 1 : dying'[i] = dying[i] /\ i \in 1 .. n /\ i # n
    BY <1>1, <1>2
  <1> HIDE DEF g, n
  <1>4. \A m \in links : src[m] # g
    BY <1>1 DEF IInv, DestroyedOnce
  <1>5. \A m \in links : dst[m] # g
    <2> SUFFICES ASSUME NEW m \in links, dst[m] = g PROVE FALSE
      OBVIOUS
    <2>1. PICK s \in DOMAIN ins[g] : ins[g][s] = m
      BY DEF IInv, InputsAgree
    <2> QED
      BY <1>2, <2>1
  <1>6. NoDangling' /\ OneMoving'
    BY <1>2, <1>4, <1>5 DEF IInv, NoDangling, OneMoving
  <1>7. \A x \in alive' : x \in alive /\ x # g /\ ins'[x] = ins[x] /\ outs'[x] = outs[x]
    BY <1>2
  <1>8. OutputsAgree'
    BY <1>2, <1>7 DEF IInv, OutputsAgree
  <1>9. InputsAgree'
    <2>1. \A m \in links : dst[m] \in alive'
      BY <1>2, <1>5 DEF IInv, NoDangling
    <2> QED
      BY <1>2, <1>7, <2>1 DEF IInv, InputsAgree
  <1>10. TypeOK'
    <2>1. g \notin held
      BY <1>1 DEF IInv, DestroyedOnce
    <2>2. ins \in [alive -> Seq(Link)] /\ outs \in [alive -> SUBSET Link]
      BY DEF IInv, TypeOK
    <2>3. ins' \in [alive' -> Seq(Link)] /\ outs' \in [alive' -> SUBSET Link]
      BY <1>2, <2>2
    <2> QED
      BY <1>2, <1>3, <2>1, <2>3 DEF IInv, TypeOK
  <1>11. DestroyedOnce'
    <2>1. \A i, j \in 1 .. n : dying[i] = dying[j] => i = j
      BY <1>1 DEF IInv, DestroyedOnce
    <2>2. \A i \in 1 .. n : dying[i] \in alive \ held /\ \A m \in links : src[m] # dying[i]
      BY <1>1 DEF IInv, DestroyedOnce
    <2>3. \A i \in 1 .. n - 1 : dying[i] # g
      BY <1>1, <1>3, <2>1
    <2>4. \A i \in 1 .. n - 1 :
            dying'[i] \in alive' \ held /\ \A m \in links : src[m] # dying'[i]
      BY <1>2, <1>3, <2>2, <2>3
    <2>5. \A i, j \in 1 .. n - 1 : dying'[i] = dying'[j] => i = j
      BY <1>3, <2>1
    <2> QED
      BY <1>2, <1>3, <2>4, <2>5 DEF DestroyedOnce
  <1>12. Owned'
    <2> SUFFICES ASSUME NEW x \in alive'
                 PROVE \/ x \in held \/ \E m \in links : src[m] = x
                       \/ \E i \in 1 .. n - 1 : dying'[i] = x
      BY <1>2, <1>3 DEF Owned
    <2>0. x \in alive
      BY <1>7
    <2>1. \/ x \in held \/ \E m \in links : src[m] = x
          \/ \E i \in DOMAIN dying : dying[i] = x
      BY <2>0 DEF IInv, Owned
    <2>2. ASSUME NEW i \in DOMAIN dying, dying[i] = x PROVE \E j \in 1 .. n - 1 : dying'[j] = x
      <3>1. i \in 1 .. n /\ i # n
        BY <1>1, <1>7, <2>2
      <3>2. i \in 1 .. n - 1
        BY <1>1, <3>1
      <3> QED
        BY <1>3, <2>2, <3>2
    <2> QED
      BY <2>1, <2>2
  <1>13. Layered'
    <2>1. PICK r \in [Gate -> Rank] :
            /\ Levels(r)
            /\ \A i, j \in DOMAIN dying : i < j => r[dying[j]] < r[dying[i]]
            /\ \A m \in moving, i \in DOMAIN dying : r[dying[i]] < r[dst[m]]
      BY DEF IInv, Layered
    <2>2. Levels(r)'
      BY <1>2, <2>1 DEF Levels
    <2> QED
      BY <1>1, <1>2, <1>3, <2>1, <2>2 DEF Layered
  <1> QED
    BY <1>6, <1>8, <1>9, <1>10, <1>11, <1>12, <1>13 DEF IInv

LEMMA StutterIInv == ASSUME IInv, UNCHANGED vars PROVE IInv'
  <1>1. TypeOK' /\ NoDangling' /\ OutputsAgree' /\ InputsAgree'
    BY DEF vars, IInv, TypeOK, NoDangling, OutputsAgree, InputsAgree
  <1>2. DestroyedOnce' /\ Owned' /\ OneMoving'
    BY DEF vars, IInv, DestroyedOnce, Owned, OneMoving
  <1>3. Layered'
    BY DEF vars, IInv, Layered, Levels
  <1> QED
    BY <1>1, <1>2, <1>3 DEF IInv

LEMMA StepIInv == ASSUME IInv, [Next]_vars PROVE IInv'
  <1>1. CASE MakeGate
    BY <1>1, MakeIInv DEF MakeGate
  <1>2. CASE \E g \in alive \ held : Hold(g)
    BY <1>2, HoldIInv
  <1>3. CASE \E g \in held : Release(g)
    BY <1>3, ReleaseIInv
  <1>4. CASE \E l \in links, new \in alive : BeginSetInput(l, new)
    BY <1>4, BeginIInv
  <1>5. CASE EndSetInput
    BY <1>5, EndIInv
  <1>6. CASE DeleteLink
    BY <1>6, DeleteIInv
  <1>7. CASE FreeGate
    BY <1>7, FreeIInv
  <1>8. CASE UNCHANGED vars
    BY <1>8, StutterIInv
  <1> QED
    BY <1>1, <1>2, <1>3, <1>4, <1>5, <1>6, <1>7, <1>8 DEF Next

-----------------------------------------------------------------------------
(* The theorems.                                                           *)

\* Every reachable state satisfies the strengthened invariant.
THEOREM Invariance == Spec => []IInv
  BY InitIInv, StepIInv, PTL DEF Spec

\* State is well-typed whatever is destroyed: no held gate is freed, and the
\* link being moved exists.
THEOREM TypeCorrectness == Spec => []TypeOK
  <1>1. IInv => TypeOK
    BY DEF IInv
  <1> QED
    BY Invariance, <1>1, PTL

\* No pointer of a link dangles, in the middle of setInput either.
THEOREM PointersValid == Spec => []NoDangling
  <1>1. IInv => NoDangling
    BY DEF IInv
  <1> QED
    BY Invariance, <1>1, PTL

\* Both lists a link is in agree with the link.
THEOREM ListsValid == Spec => [](OutputsAgree /\ InputsAgree)
  <1>1. IInv => OutputsAgree /\ InputsAgree
    BY DEF IInv
  <1> QED
    BY Invariance, <1>1, PTL

\* A destructor runs at most once for a gate and never for one in use.
THEOREM NoDoubleDestruction == Spec => []DestroyedOnce
  <1>1. IInv => DestroyedOnce
    BY DEF IInv
  <1> QED
    BY Invariance, <1>1, PTL

\* A gate without an owner is being destroyed.
THEOREM NothingForgotten == Spec => []Owned
  <1>1. IInv => Owned
    BY DEF IInv
  <1> QED
    BY Invariance, <1>1, PTL

\* A set of live gates that is not empty has one that is in no other's
\* inputs: the one with the fewest levels above its own.
LEMMA TopGate ==
  ASSUME NEW r \in [Gate -> Rank], NEW S \in SUBSET Gate, S # {}
  PROVE  \E x \in S : \A y \in S : ~ (r[x] < r[y])
  <1> DEFINE Higher(x) == {n \in Rank : r[x] < n}
             T == {Higher(x) : x \in S}
             R == StrictSubsetOrdering(Rank)
  <1>1. IsWellFoundedOn(R, SUBSET Rank)
    BY DepthAssumption, FS_StrictSubsetOrderingWellFounded, FS_FiniteSubsetsOfFinite
  <1>2. T \subseteq SUBSET Rank /\ T # {}
    OBVIOUS
  <1>3. PICK t \in T : \A u \in T : ~ (<<u, t>> \in R)
    <2> HIDE DEF T, R
    <2> QED
      BY <1>1, <1>2, WFMin
  <1>4. PICK x \in S : t = Higher(x)
    OBVIOUS
  <1>5. ASSUME NEW y \in S, r[x] < r[y] PROVE FALSE
    <2>1. r[x] \in Nat /\ r[y] \in Nat /\ r[y] \in Rank /\ Rank \subseteq Nat
      BY RankAssumption
    <2>2. \A n \in Higher(y) : n \in Higher(x)
      BY <1>5, <2>1
    <2>3. r[y] \in Higher(x) /\ r[y] \notin Higher(y)
      BY <1>5, <2>1
    <2>4. <<Higher(y), Higher(x)>> \in R
      BY <2>2, <2>3 DEF StrictSubsetOrdering
    <2> QED
      BY <1>3, <1>4, <2>4
  <1> QED
    BY <1>5

\* Nothing leaks: between two operations every set of gates that is closed
\* under its outputs holds a gate that a caller owns.
THEOREM NoLeaks == Spec => []NoLeak
  <1>1. IInv => NoLeak
    <2> SUFFICES ASSUME IInv, Idle, NEW S \in SUBSET alive, S \cap held = {}, S # {},
                        \A m \in links : src[m] \in S => dst[m] \in S
                 PROVE  FALSE
      BY DEF NoLeak
    <2>1. PICK r \in [Gate -> Rank] : Levels(r)
      BY DEF IInv, Layered
    <2>2. S \in SUBSET Gate
      BY DEF IInv, TypeOK
    <2>3. PICK x \in S : \A y \in S : ~ (r[x] < r[y])
      BY <2>2, TopGate
    <2>4. \A i \in DOMAIN dying : FALSE
      BY DEF Idle
    <2>5. PICK m \in links : src[m] = x
      BY <2>4 DEF IInv, Owned
    <2> QED
      BY <2>1, <2>3, <2>5 DEF Levels
  <1> QED
    BY Invariance, <1>1, PTL
=============================================================================
