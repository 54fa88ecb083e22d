------------------------------ MODULE QuickSort -------------------------------
(***************************************************************************)
(* qsort_generic of src/src/base/sort.c: in each round of its loop it      *)
(* partitions a range around its last element, calls itself for the        *)
(* shorter part and goes on with the longer one.                           *)
(*                                                                         *)
(* The comparison need not be an order: NotAfter is the relation           *)
(* cmp(a, b) <= 0, whatever it is.                                         *)
(***************************************************************************)
EXTENDS Integers, Sequences

CONSTANT NotAfter(_, _)

VARIABLES
  array,  \* the elements, from index 0
  stack   \* the calls under way and their loop variables, the innermost last

sortVars == <<array, stack>>

\* Mutant: the first element is overwritten before it is saved.
SwapOneWay(a, i, j) == [a EXCEPT ![i] = a[j]]

Swap(a, i, j) == [a EXCEPT ![i] = a[j], ![j] = a[i]]

Top == stack[Len(stack)]

\* A call, or a round of one, before its first comparison.
Part(low, high) == [low |-> low, high |-> high, i |-> low, j |-> low]

Calls(n) == stack' = <<Part(0, n - 1)>>

\* Whether the round goes on (the loop conditions of qsort_generic).
Comparing == stack # <<>> /\ Top.low < Top.high /\ Top.j < Top.high
Splitting == stack # <<>> /\ Top.low < Top.high /\ Top.j = Top.high

\* One comparison with the pivot, array[high]: elements before i do not come
\* after the pivot, those from i to j - 1 do.
Compare ==
  /\ Comparing
  /\ IF NotAfter(array[Top.j], array[Top.high])
       THEN /\ array' = Swap(array, Top.i, Top.j)
            /\ stack' = [stack EXCEPT ![Len(stack)] =
                           [Top EXCEPT !.i = Top.i + 1, !.j = Top.j + 1]]
       ELSE /\ stack' = [stack EXCEPT ![Len(stack)] =
                           [Top EXCEPT !.j = Top.j + 1]]
            /\ UNCHANGED array

\* The call goes on with one part and calls itself for the other.
Recurse(on, for) ==
  stack' = Append([stack EXCEPT ![Len(stack)] = on], for)

\* Mutant: the left part keeps the pivot.
SplitKeepsPivot ==
  /\ Splitting
  /\ array' = Swap(array, Top.i, Top.high)
  /\ LET left  == Part(Top.low, Top.i)
         right == Part(Top.i + 1, Top.high)
     IN  IF left.high - left.low < right.high - right.low
           THEN Recurse(right, left)
           ELSE Recurse(left, right)

\* Mutant: it is always the left part that is called for.
SplitCallsLeft ==
  /\ Splitting
  /\ array' = Swap(array, Top.i, Top.high)
  /\ Recurse(Part(Top.i + 1, Top.high), Part(Top.low, Top.i - 1))

\* The pivot takes its place; the shorter part is the one called for.
Split ==
  /\ Splitting
  /\ array' = Swap(array, Top.i, Top.high)
  /\ LET left  == Part(Top.low, Top.i - 1)
         right == Part(Top.i + 1, Top.high)
     IN  IF left.high - left.low < right.high - right.low
           THEN Recurse(right, left)
           ELSE Recurse(left, right)

Return ==
  /\ stack # <<>> /\ Top.low >= Top.high
  /\ stack' = SubSeq(stack, 1, Len(stack) - 1)
  /\ UNCHANGED array
=============================================================================
