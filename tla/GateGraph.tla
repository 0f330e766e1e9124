------------------------------ MODULE GateGraph ------------------------------
(***************************************************************************)
(* Who owns what in the gate graph (Gate, Link, BivariateGate, NotGate).   *)
(* A link owns the gate at its input (shared_ptr) and is owned by the gate *)
(* at its output, which it knows by a raw pointer; both gates list it, and *)
(* it erases itself from the lists through saved iterators.  A gate whose  *)
(* last owner is dropped is destroyed at once: its destructor deletes its  *)
(* links, and each link's destructor drops an owner in turn.  The one      *)
(* place where that happens in the middle of something else is             *)
(* Link::setInput, between taking the link from one list and putting it    *)
(* into the other.                                                         *)
(*                                                                         *)
(* GateHeap takes all of this in one step; the modules on top of it use    *)
(* what is shown here.                                                     *)
(*                                                                         *)
(* Abstraction.  outputs is a set of links: nothing here depends on its    *)
(* order.                                                                  *)
(***************************************************************************)
EXTENDS Naturals, Sequences, FiniteSets

CONSTANTS
  Gate,     \* addresses for gates
  Link,     \* addresses for links
  Rank      \* bound on the depth of a circuit: the levels a gate can have

ASSUME RankAssumption == Rank \subseteq Nat /\ Rank # {}
ASSUME DepthAssumption == IsFiniteSet(Rank)

VARIABLES
  alive,    \* the gates that exist
  links,    \* the links that exist
  src,      \* Link::inputGate, owning
  dst,      \* Link::outputGate, raw
  ins,      \* Gate::inputs
  outs,     \* Gate::outputs
  held,     \* the gates that a caller or a circuit owns
  moving,   \* the link whose setInput is running, if any
  dying     \* the destructors that are running, the innermost last

vars == <<alive, links, src, dst, ins, outs, held, moving, dying>>

Idle == moving = {} /\ dying = <<>>

\* r puts every gate above its inputs.
Levels(r) == \A m \in links : r[src[m]] < r[dst[m]]

-----------------------------------------------------------------------------
(* Owners.                                                                 *)

\* Mutant: a gate goes when its list of outputs is empty.
WithoutOwnerListed(x, H, L, s, O) == x \notin H /\ O[x] = {}

WithoutOwner(x, H, L, s, O) == x \notin H /\ \A m \in L : s[m] # x

\* Mutant: raw pointers everywhere.
DroppedNothing(x) == dying

\* What runs after an owner of x was dropped.
Dropped(x) ==
  IF WithoutOwner(x, held', links', src', outs') THEN Append(dying, x) ELSE dying

-----------------------------------------------------------------------------
(* Construction.                                                           *)

Init ==
  /\ alive = {} /\ links = {} /\ held = {} /\ moving = {} /\ dying = <<>>
  /\ src = <<>> /\ dst = <<>> /\ ins = <<>> /\ outs = <<>>

Entry(new, m) == CHOOSE s \in DOMAIN new : new[s] = m

\* A gate g is made, with the links new to the gates of inputs.
Make(g, new, inputs) ==
  /\ Idle
  /\ \E r \in [Gate -> Rank] : Levels(r) /\ \A s \in DOMAIN new : r[inputs[s]] < r[g]
  /\ alive' = alive \cup {g}
  /\ held' = held \cup {g}
  /\ links' = links \cup {new[s] : s \in DOMAIN new}
  /\ src' = [m \in links' |-> IF m \in links THEN src[m] ELSE inputs[Entry(new, m)]]
  /\ dst' = [m \in links' |-> IF m \in links THEN dst[m] ELSE g]
  /\ ins' = [x \in alive' |-> IF x = g THEN new ELSE ins[x]]
  /\ outs' = [x \in alive' |-> (IF x = g THEN {} ELSE outs[x])
                                 \cup {new[s] : s \in {t \in DOMAIN new : inputs[t] = x}}]
  /\ UNCHANGED <<moving, dying>>

MakeGate ==
  \E g \in Gate \ alive, arity \in 0 .. 2 :
    \E new \in [1 .. arity -> Link \ links], inputs \in [1 .. arity -> alive] :
      /\ \A s, t \in 1 .. arity : new[s] = new[t] => s = t
      /\ Make(g, new, inputs)

-----------------------------------------------------------------------------
(* What callers do with gates.                                             *)

\* Link::getInput hands out an owner.
Hold(g) ==
  /\ Idle
  /\ held' = held \cup {g}
  /\ UNCHANGED <<alive, links, src, dst, ins, outs, moving, dying>>

Release(g) ==
  /\ Idle
  /\ held' = held \ {g}
  /\ UNCHANGED <<alive, links, src, dst, ins, outs, moving>>
  /\ dying' = Dropped(g)

\* Mutant: the link stays in the list of its old input.
UnlistNothing(l) == outs
Unlist(l) == [outs EXCEPT ![src[l]] = @ \ {l}]

\* Link::setInput up to the assignment of inputGate; the new input is not
\* above the gate of the link.
BeginSetInput(l, new) ==
  /\ Idle
  /\ \E r \in [Gate -> Rank] : Levels(r) /\ r[new] < r[dst[l]]
  /\ outs' = Unlist(l)
  /\ src' = [src EXCEPT ![l] = new]
  /\ moving' = {l}
  /\ UNCHANGED <<alive, links, dst, ins, held>>
  /\ dying' = Dropped(src[l])

\* The rest of setInput, when what the assignment destroyed is gone.
EndSetInput ==
  /\ dying = <<>>
  /\ \E l \in moving : outs' = [outs EXCEPT ![src[l]] = @ \cup {l}]
  /\ moving' = {}
  /\ UNCHANGED <<alive, links, src, dst, ins, held, dying>>

-----------------------------------------------------------------------------
(* Destructors.                                                            *)

innermost == dying[Len(dying)]

Erased(list) == Tail(list)

\* ~BivariateGate, ~NotGate: delete inputs.front(); ~Link.
DeleteLink ==
  /\ dying # <<>>
  /\ ins[innermost] # <<>>
  /\ LET l == Head(ins[innermost]) IN
       /\ links' = links \ {l}
       /\ src' = [m \in links' |-> src[m]]
       /\ dst' = [m \in links' |-> dst[m]]
       /\ ins' = [ins EXCEPT ![innermost] = Erased(@)]
       /\ outs' = Unlist(l)
       /\ UNCHANGED <<alive, held, moving>>
       /\ dying' = Dropped(src[l])

\* Mutant: the destructor is run again.
DestroyedAgain == dying
Destroyed == SubSeq(dying, 1, Len(dying) - 1)

FreeGate ==
  /\ dying # <<>>
  /\ ins[innermost] = <<>>
  /\ alive' = alive \ {innermost}
  /\ ins' = [x \in alive' |-> ins[x]]
  /\ outs' = [x \in alive' |-> outs[x]]
  /\ dying' = Destroyed
  /\ UNCHANGED <<links, src, dst, held, moving>>

Next ==
  \/ MakeGate
  \/ \E g \in alive \ held : Hold(g)
  \/ \E g \in held : Release(g)
  \/ \E l \in links, new \in alive : BeginSetInput(l, new)
  \/ EndSetInput
  \/ DeleteLink
  \/ FreeGate

Spec == Init /\ [][Next]_vars

-----------------------------------------------------------------------------
(* Properties.                                                             *)

TypeOK ==
  /\ alive \subseteq Gate /\ held \subseteq alive
  /\ links \subseteq Link /\ moving \subseteq links
  /\ src \in [links -> Gate] /\ dst \in [links -> Gate]
  /\ ins \in [alive -> Seq(Link)] /\ outs \in [alive -> SUBSET Link]
  /\ dying \in Seq(Gate)

\* A link's pointers lead to gates that exist, the raw one to its output
\* gate included, also for the link whose setInput is interrupted by a
\* chain of destructors.
NoDangling == \A m \in links : src[m] \in alive /\ dst[m] \in alive

\* The lists of outputs hold the links that own the gate, but for the one
\* being moved, which is in no list.
OutputsAgree ==
  \A x \in alive : outs[x] = {m \in links \ moving : src[m] = x}

\* The lists of inputs hold the links that point back, each once; erase
\* and front() meet no link that was deleted.
InputsAgree ==
  /\ \A x \in alive : \A s \in DOMAIN ins[x] : ins[x][s] \in links /\ dst[ins[x][s]] = x
  /\ \A x \in alive : \A s, t \in DOMAIN ins[x] : ins[x][s] = ins[x][t] => s = t
  /\ \A m \in links : \E s \in DOMAIN ins[dst[m]] : ins[dst[m]][s] = m

\* A destructor runs once for a gate, and only when nothing owns it.
DestroyedOnce ==
  /\ \A i, j \in DOMAIN dying : dying[i] = dying[j] => i = j
  /\ \A i \in DOMAIN dying :
       dying[i] \in alive \ held /\ \A m \in links : src[m] # dying[i]

\* Every gate that is not being destroyed has an owner.
Owned ==
  \A x \in alive : \/ x \in held
                   \/ \E m \in links : src[m] = x
                   \/ \E i \in DOMAIN dying : dying[i] = x

\* Between two operations no set of gates is alive only because its gates
\* own each other: what no caller reaches is gone.
NoLeak ==
  Idle => \A S \in SUBSET alive :
            (\A m \in links : src[m] \in S => dst[m] \in S) /\ S \cap held = {}
              => S = {}
=============================================================================
