------------------------------ MODULE ImageValues ------------------------------
(***************************************************************************)
(* What a user of ImageData relies on: an image is a value.  It has a      *)
(* shape and a content of its own, an operation changes the image it is    *)
(* called on and, if that is a move, the one moved from, and an operation  *)
(* that throws changes nothing, save that a copy assignment without memory *)
(* loses the image assigned to.                                            *)
(*                                                                         *)
(* The images are a function i from objects.  Each operation is a relation *)
(* between the images i before it and the images j after it.               *)
(***************************************************************************)
EXTENDS Integers

CONSTANTS Objects,   \* where images are declared
          NumValues  \* contents are told apart up to this number

\* An object before and after its life, one whose image is lost, and an image.
Absent == [state |-> "absent"]
Lost   == [state |-> "lost"]
Empty  == [state |-> "empty"]
Image(s, v) == [state |-> "image", shape |-> s, value |-> v]

Start == [o \in Objects |-> Absent]

IsImage(x) == x.state = "image"
Usable(x)  == IsImage(x) \/ x = Empty

\* What += does to the contents, standing for every operator of its kind.
Combined(a, b) == (a + b) % NumValues
Combination(x, y) == Image(x.shape, Combined(x.value, y.value))

\* An operator on two images needs the same shape of both.
Alike(x, y) == IsImage(x) /\ IsImage(y) /\ x.shape = y.shape

Construct(i, j, o) ==
    i[o] = Absent /\ Usable(j[o]) /\ j = [i EXCEPT ![o] = j[o]]

CopyConstruct(i, j, o, p) ==
    i[o] = Absent /\ Usable(i[p]) /\ j = [i EXCEPT ![o] = i[p]]

CopyAssign(i, j, o, p) ==
    Usable(i[o]) /\ Usable(i[p]) /\ j \in {[i EXCEPT ![o] = x] : x \in {i[p], Lost}}

\* A move, into a new image or an old one, leaves an empty image behind.
Move(i, j, o, p) ==
    o # p /\ i[o] # Lost /\ Usable(i[p]) /\ j = [i EXCEPT ![o] = i[p], ![p] = Empty]

Combine(i, j, o, p) ==
    Alike(i[o], i[p]) /\ j = [i EXCEPT ![o] = Combination(i[o], i[p])]

Plus(i, j, o, p, q) ==
    /\ i[o] = Absent
    /\ \/ Alike(i[p], i[q]) /\ j = [i EXCEPT ![o] = Combination(i[p], i[q])]
       \/ i[p] = Empty /\ i[q] = Empty /\ j = [i EXCEPT ![o] = Empty]

\* Numbers are written to the elements.
Write(i, j, o) ==
    /\ IsImage(i[o]) /\ IsImage(j[o]) /\ j[o].shape = i[o].shape
    /\ j = [i EXCEPT ![o] = j[o]]

Destroy(i, j, o) == i[o] # Absent /\ j = [i EXCEPT ![o] = Absent]
=============================================================================
