----------------------------- MODULE EntityDraws ------------------------------
(***************************************************************************)
(* The order entities are drawn in (src/src/game/entity.c and              *)
(* draw_entities of src/src/render/draw.c).  Every frame the main thread   *)
(* writes the depth of each visible entity into the array entity_draws,    *)
(* sorts it by falling depth, and draws the visible ones in that order, so *)
(* that near ones cover far ones.                                          *)
(*                                                                         *)
(* The depth of an entity that is not visible is the one of an earlier     *)
(* frame, and before it has been visible for the first time whatever       *)
(* malloc returned: a number or NaN.                                       *)
(***************************************************************************)
EXTENDS Integers, Sequences

CONSTANTS
  Count,   \* the number of entities
  Depths,  \* what a depth may be; at 0 and below an entity is behind the player
  NaN      \* the depth that is not a number

ASSUME EntityDrawsAssumption ==
  /\ Count \in Nat \ {0}
  /\ Depths \subseteq Int
  /\ NaN \notin Depths

Entity == 0 .. Count - 1

VARIABLES
  phase,         \* of the frame: "simulating", "sorting" or "drawing"
  visible,       \* entities[id].visible
  entity_draws,  \* the array that is sorted
  stack          \* the calls of qsort_generic

vars == <<phase, visible, entity_draws, stack>>

\* Mutant: the nearest entity comes first.
NotAfterNear(a, b) == NaN \in {a.depth, b.depth} \/ a.depth <= b.depth

\* cmp_entity_draw(a, b) <= 0; no comparison with NaN is true.
NotAfter(a, b) == NaN \in {a.depth, b.depth} \/ a.depth >= b.depth

Sort == INSTANCE QuickSort WITH array <- entity_draws

\* init_entity_state.
Init ==
  /\ phase = "simulating"
  /\ visible = [e \in Entity |-> FALSE]
  /\ \E garbage \in [Entity -> Depths \cup {NaN}] :
       entity_draws = [k \in Entity |-> [id |-> k, depth |-> garbage[k]]]
  /\ stack = <<>>

\* entity_draws_prepare up to the sort: anybody may be seen by now, at any
\* depth.
Prepare ==
  /\ phase = "simulating"
  /\ \E seen \in SUBSET Entity : \E depth \in [seen -> Depths] :
       /\ visible' = [e \in Entity |-> e \in seen]
       /\ entity_draws' =
            [k \in Entity |->
               LET d == entity_draws[k]
               IN  IF d.id \in seen THEN [d EXCEPT !.depth = depth[d.id]]
                                    ELSE d]
  /\ Sort!Calls(Count)
  /\ phase' = "sorting"

\* entity_draws_sort.
SortCompare == Sort!Compare /\ UNCHANGED <<phase, visible>>
SortSplit   == Sort!Split /\ UNCHANGED <<phase, visible>>
SortReturn  == Sort!Return /\ UNCHANGED <<phase, visible>>

\* The sort has returned; draw_entities follows, and the next frame.
StartDrawing ==
  /\ phase = "sorting" /\ stack = <<>>
  /\ phase' = "drawing"
  /\ UNCHANGED <<visible, entity_draws, stack>>

EndFrame ==
  /\ phase = "drawing"
  /\ phase' = "simulating"
  /\ UNCHANGED <<visible, entity_draws, stack>>

Next ==
  Prepare \/ SortCompare \/ SortSplit \/ SortReturn \/ StartDrawing \/ EndFrame

Spec == Init /\ [][Next]_vars

\* The main thread runs.
FairSpec == Spec /\ WF_vars(Next)

-----------------------------------------------------------------------------
\* Every entity is in the array once, at every moment of the sort and whatever
\* the comparison returns: none is drawn twice and none is left out.
EachEntityDrawnOnce == {entity_draws[k].id : k \in Entity} = Entity

\* The entities draw_entities does not skip.
Drawn ==
  {k \in Entity : visible[entity_draws[k].id] /\ entity_draws[k].depth > 0}

\* The painter's order: of two entities on the screen the farther one comes
\* first.
PaintersOrder ==
  \A j, k \in Drawn :
    j < k => entity_draws[j].depth >= entity_draws[k].depth

\* The calls of qsort_generic are nested no deeper than the logarithm of the
\* number of entities, whatever the comparison returns.
StackStaysShallow == stack # <<>> => 2 ^ (Len(stack) - 1) <= Count

\* The sort ends, whatever the comparison returns.
SortEnds == phase = "sorting" ~> phase = "drawing"
=============================================================================
