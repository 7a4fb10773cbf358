------------------------------- MODULE Slices -------------------------------
(***************************************************************************)
(* Go slices that goroutines share without a lock.  A slice is a header,   *)
(* [arr, len], over one of the backing arrays in heap, a sequence of       *)
(* sequences; the length of an array is its capacity.  An operation yields *)
(* the heap and the header it leaves.                                      *)
(***************************************************************************)
EXTENDS Integers, Sequences

EmptyHeap  == << <<>> >>
EmptySlice == [arr |-> 1, len |-> 0]

At(heap, s, i)    == heap[s.arr][i]
Elements(heap, s) == {At(heap, s, i) : i \in 1..s.len}

(* The places from on where x is found.                                    *)
Places(heap, s, x, from) == {i \in from..s.len : At(heap, s, i) = x}

(* append(s, x): in place when the array has room, else in a new array of  *)
(* twice the capacity, whose free slots hold none.                         *)
SliceAppend(heap, s, x, none) ==
    LET old == heap[s.arr]
        cap == IF old = <<>> THEN 1 ELSE 2 * Len(old)
        new == [i \in 1..cap |-> CASE i <= s.len -> old[i]
                                   [] i = s.len + 1 -> x
                                   [] OTHER -> none]
    IN  IF s.len < Len(old)
        THEN [heap  |-> [heap EXCEPT ![s.arr][s.len + 1] = x],
              slice |-> [arr |-> s.arr, len |-> s.len + 1]]
        ELSE [heap  |-> Append(heap, new),
              slice |-> [arr |-> Len(heap) + 1, len |-> s.len + 1]]

(* append(s[:i], s[i+1:]...) counted from 1: what follows moves down in    *)
(* the same array, and the last element stays behind the new end.          *)
SliceRemove(heap, s, i) ==
    [heap  |-> [heap EXCEPT ![s.arr] = [j \in DOMAIN @ |->
                   IF j \in i..(s.len - 1) THEN @[j + 1] ELSE @[j]]],
     slice |-> [arr |-> s.arr, len |-> s.len - 1]]
=============================================================================
