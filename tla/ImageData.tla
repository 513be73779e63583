------------------------------- MODULE ImageData -------------------------------
(***************************************************************************)
(* ImageData, the container that owns its elements, and DataSpan, a view   *)
(* of them: which object owns which memory, over construction, copies,     *)
(* moves, failed allocations and arithmetic, and where the elements lie.   *)
(*                                                                         *)
(* All elements of an image are treated alike, so a content is one value.  *)
(* An operation that throws and leaves no trace is a stuttering step and   *)
(* has no action: construction without memory, arithmetic on images of     *)
(* different shapes.                                                       *)
(***************************************************************************)
EXTENDS Integers, FiniteSets

CONSTANTS Objects,     \* where images are declared
          Spans,       \* where spans are declared
          Block,       \* the blocks the heap can hold
          Null,        \* nullptr
          Ndim,        \* the number of dimensions
          Extents,     \* the extents a dimension of a new image may have
          IntBits,     \* the width of int, in which the size is computed
          NumValues    \* contents are told apart up to this number

ASSUME NullAssumption == Null \notin Block
ASSUME NdimAssumption == Ndim \in Nat /\ Ndim >= 1
ASSUME ExtentsAssumption == Extents \subseteq Nat \ {0}
ASSUME WidthAssumption == IntBits \in Nat /\ IntBits >= 2
ASSUME ValuesAssumption == NumValues \in Nat \ {0}

VARIABLES alive,   \* the objects constructed and not destroyed
          shape,   \* shape_ of each object
          data,    \* data_ of each object
          heap,    \* the blocks allocated
          mem,     \* for each block, how many elements it has and what is in them
          span,    \* buffer_ and shape_ of each span
          (* What happened, which the code does not record. *)
          lost,    \* the objects whose copy assignment found no memory
          seeing   \* the spans whose memory has not been freed since they were made

objVars  == <<alive, shape, data, lost>>
heapVars == <<heap, mem>>
spanVars == <<span, seeing>>
vars == <<objVars, heapVars, spanVars>>

Value == 0 .. NumValues - 1
Shape == [1 .. Ndim -> Extents]
NoShape == [i \in 1 .. Ndim |-> 0]
AnyShape == Shape \cup {NoShape}
-----------------------------------------------------------------------------
(***************************************************************************)
(* Sizes and offsets.                                                      *)
(***************************************************************************)
\* A number stored in an int.
ToInt(n) == LET half == 2^(IntBits - 1) IN ((n + half) % (2 * half)) - half

\* std::accumulate starts with the int 1, so each product is stored in an int.
SizeOf == [s \in AnyShape |->
    LET product[d \in 0 .. Ndim] == IF d = 0 THEN 1 ELSE ToInt(product[d - 1] * s[d])
    IN  product[Ndim]]

\* Row major: an index moves by the product of the extents after it.
StridesShort == [s \in AnyShape |->
    LET st[i \in 1 .. Ndim] == IF i \in {1, Ndim} THEN 1 ELSE st[i + 1] * s[i + 1] IN st]
Strides == [s \in AnyShape |->
    LET st[i \in 1 .. Ndim] == IF i = Ndim THEN 1 ELSE st[i + 1] * s[i + 1] IN st]

\* The sum of the products from the dimension d on is one more product and the rest.
Offset(s, index) ==
    LET from[d \in 1 .. Ndim + 1] ==
            IF d > Ndim THEN 0 ELSE index[d] * Strides[s][d] + from[d + 1]
    IN  from[1]
-----------------------------------------------------------------------------
(***************************************************************************)
(* new[] and delete[].  A new block may be one that was freed before.      *)
(***************************************************************************)
Blank == [size |-> 0, value |-> 0]

\* The step in which block old is freed, or none when it is Null, and then
\* block new is allocated with n elements, or none when it is Null.
Reallocate(old, new, n, v) ==
    /\ new \in (Block \ heap) \cup {old, Null}
    /\ new # Null => n \in Nat
    /\ heap' = (heap \ {old}) \cup ({new} \ {Null})
    /\ mem' = [b \in Block |-> IF b = new THEN [size |-> n, value |-> v]
                               ELSE IF b = old THEN Blank ELSE mem[b]]
    /\ seeing' = {k \in seeing : old = Null \/ span[k].data # old}

New(new, n, v) == new \in Block \ heap /\ Reallocate(Null, new, n, v)
Delete(old) == Reallocate(old, Null, 0, 0)
-----------------------------------------------------------------------------
Usable(o) == o \in alive \ lost
Fresh(o)  == o \notin alive \cup lost

Init ==
    /\ alive = {} /\ lost = {} /\ seeing = {} /\ heap = {}
    /\ shape = [o \in Objects |-> NoShape] /\ data = [o \in Objects |-> Null]
    /\ mem = [b \in Block |-> Blank]
    /\ span = [k \in Spans |-> [data |-> Null, shape |-> NoShape]]

\* The object o comes to life, with this shape and memory.
Begins(o, s, d) ==
    /\ Fresh(o)
    /\ alive' = alive \cup {o}
    /\ shape' = [shape EXCEPT ![o] = s] /\ data' = [data EXCEPT ![o] = d]
    /\ UNCHANGED <<span, lost>>

\* ImageData()
ConstructEmpty(o) == Begins(o, NoShape, Null) /\ UNCHANGED <<heapVars, seeing>>

\* ImageData(shape), whose elements hold anything, and ImageData(shape, value).
Construct(o, s) ==
    \E b \in Block, v \in Value : Begins(o, s, b) /\ New(b, SizeOf[s], v)

\* The elements of block b, none of which are read when the size is 0.
Content(b, s) == IF SizeOf[s] = 0 \/ b = Null THEN 0 ELSE mem[b].value

\* ImageData(const ImageData&), and ImageData(span), which copies as well.
CopyConstructShared(o, s, d) == Begins(o, s, d) /\ UNCHANGED <<heapVars, seeing>>
CopyConstruct(o, s, d) ==
    \E b \in Block : Begins(o, s, b) /\ New(b, SizeOf[s], Content(d, s))

CopyObject(o, p) == Usable(p) /\ CopyConstruct(o, shape[p], data[p])
CopySpan(o, k) == k \in seeing /\ CopyConstruct(o, span[k].shape, span[k].data)

\* The object p was moved from: reset().
Reset(f, p, nothing) == [f EXCEPT ![p] = nothing]

\* ImageData(ImageData&&)
MoveConstructLate(o, p) ==
    /\ Usable(p) /\ Fresh(o)
    /\ alive' = alive \cup {o}
    /\ shape' = Reset(shape, p, NoShape)
    /\ data' = Reset([data EXCEPT ![o] = data[p]], p, Null)
    /\ UNCHANGED <<lost, heapVars, spanVars>>
MoveConstruct(o, p) ==
    /\ Usable(p) /\ Fresh(o)
    /\ alive' = alive \cup {o}
    /\ shape' = Reset([shape EXCEPT ![o] = shape[p]], p, NoShape)
    /\ data' = Reset([data EXCEPT ![o] = data[p]], p, Null)
    /\ UNCHANGED <<lost, heapVars, spanVars>>

\* operator=(ImageData&&)
MoveAssign(o, p) ==
    /\ Usable(o) /\ Usable(p) /\ o # p
    /\ shape' = Reset([shape EXCEPT ![o] = shape[p]], p, NoShape)
    /\ data' = Reset([data EXCEPT ![o] = data[p]], p, Null)
    /\ UNCHANGED <<alive, lost, span>>
    /\ Delete(data[o])

\* operator=(const ImageData&): the old memory is freed and shape_ set before
\* there is new memory.
CopyAssign(o, p) ==
    /\ Usable(o) /\ Usable(p) /\ o # p
    /\ shape' = [shape EXCEPT ![o] = shape[p]]
    /\ UNCHANGED <<alive, lost, span>>
    /\ \E b \in Block :
          /\ data' = [data EXCEPT ![o] = b]
          /\ Reallocate(data[o], b, SizeOf[shape[p]], Content(data[p], shape[p]))

\* Then new[] throws, and data_ still points to the memory freed.
CopyAssignFails(o, p) ==
    /\ Usable(o) /\ Usable(p) /\ o # p
    /\ shape' = [shape EXCEPT ![o] = shape[p]]
    /\ lost' = lost \cup {o}
    /\ UNCHANGED <<alive, data, span>>
    /\ Delete(data[o])

\* The elements of block b are set to v.
Store(b, v) ==
    /\ UNCHANGED <<objVars, heap, spanVars>>
    /\ mem' = IF b = Null \/ mem[b].size = 0 THEN mem ELSE [mem EXCEPT ![b].value = v]

Combined(a, b) == (a + b) % NumValues

\* The check of every operator on two images.
SameSize(o, p) == SizeOf[shape[o]] = SizeOf[shape[p]]
SameShape(o, p) == shape[o] = shape[p]

\* +=, -=, *=, /= with an image.
Combine(o, p) ==
    /\ Usable(o) /\ Usable(p)
    /\ SameShape(o, p)
    /\ Store(data[o], Combined(Content(data[o], shape[o]), Content(data[p], shape[p])))

\* +, -, *, / of two images: a copy of the first, combined with the second.
Plus(o, p, q) ==
    /\ Usable(p) /\ Usable(q)
    /\ SameShape(p, q)
    /\ \E b \in Block :
          /\ Begins(o, shape[p], b)
          /\ New(b, SizeOf[shape[p]],
                 Combined(Content(data[p], shape[p]), Content(data[q], shape[q])))

\* =, +=, -=, *=, /=, &= with a number, ++, sqrt, and elements one by one.
Scale(o) == Usable(o) /\ \E v \in Value : Store(data[o], v)

\* ~ImageData()
Destroy(o) ==
    /\ o \in alive
    /\ alive' = alive \ {o}
    /\ shape' = [shape EXCEPT ![o] = NoShape] /\ data' = [data EXCEPT ![o] = Null]
    /\ UNCHANGED <<lost, span>>
    /\ Delete(data[o])

\* span() of an image with memory.
TakeSpan(k, o) ==
    /\ Usable(o) /\ data[o] # Null
    /\ span' = [span EXCEPT ![k] = [data |-> data[o], shape |-> shape[o]]]
    /\ seeing' = seeing \cup {k}
    /\ UNCHANGED <<objVars, heapVars>>

\* The user writes through a span whose memory is still there.
WriteSpan(k) == k \in seeing /\ \E v \in Value : Store(span[k].data, v)

Next ==
    \/ \E o \in Objects :
          \/ ConstructEmpty(o) \/ Scale(o) \/ Destroy(o)
          \/ \E s \in Shape : Construct(o, s)
          \/ \E p \in Objects :
                \/ CopyObject(o, p) \/ MoveConstruct(o, p)
                \/ CopyAssign(o, p) \/ CopyAssignFails(o, p) \/ MoveAssign(o, p)
                \/ Combine(o, p)
                \/ \E q \in Objects : Plus(o, p, q)
    \/ \E k \in Spans :
          \/ WriteSpan(k)
          \/ \E o \in Objects : TakeSpan(k, o) \/ CopySpan(o, k)

Spec == Init /\ [][Next]_vars
-----------------------------------------------------------------------------
(***************************************************************************)
(* Properties.                                                             *)
(***************************************************************************)
TypeOK ==
    /\ alive \subseteq Objects /\ lost \subseteq Objects /\ seeing \subseteq Spans
    /\ shape \in [Objects -> AnyShape] /\ data \in [Objects -> Block \cup {Null}]
    /\ heap \subseteq Block
    /\ \A b \in Block : mem[b].size \in Nat /\ mem[b].value \in Value
    /\ span \in [Spans -> [data : Block \cup {Null}, shape : AnyShape]]
    /\ \A o \in Objects : data[o] = Null => shape[o] = NoShape \/ o \in lost

\* An object left with a pointer to freed memory harms nobody before it is
\* destroyed, and then frees whatever is there.
Sane == lost \subseteq alive
Good == alive \ lost

\* "ImageData expect to own its data": the memory of an image is allocated,
\* and no other image has it.
OneOwner ==
    Sane => \A o, p \in Good :
        data[o] # Null => data[o] \in heap /\ (data[o] = data[p] => o = p)

\* No memory is allocated that no image will free, whatever throws.
NoLeak == \A b \in heap : \E o \in alive : data[o] = b

\* All at once: every variable has its type, and allocated memory one image
\* that frees it.
Owned == TypeOK /\ OneOwner /\ NoLeak

\* What an image should be: so many elements, and an offset for each index.
Index(s) == {i \in [1 .. Ndim -> UNION {0 .. s[d] - 1 : d \in 1 .. Ndim}] :
                 \A d \in 1 .. Ndim : i[d] < s[d]}
Count   == [s \in AnyShape |-> Cardinality(Index(s))]
Offsets == [s \in AnyShape |-> {Offset(s, i) : i \in Index(s)}]
Fitting == {s \in AnyShape : Count[s] \in 0 .. 2^(IntBits - 1) - 1}

\* A loop over size_ elements stays in the memory of its image, in every shape.
\* While the number of elements fits an int, the offsets of the indexes are the
\* elements that have memory, each once; from there on some have none.
InBounds ==
    Sane => \A o \in Good : data[o] # Null =>
        LET s == shape[o]
            size == mem[data[o]].size
        IN  /\ size = SizeOf[s]
            /\ s \in Fitting => size = Count[s] /\ Offsets[s] = 0 .. size - 1
            /\ s \notin Fitting => size < Count[s]

\* Until its memory is freed a span shows one whole image, also after moves.
SpansSee ==
    Sane => \A k \in seeing : \E o \in Good :
        data[o] = span[k].data /\ shape[o] = span[k].shape

(***************************************************************************)
(* Images are values: ImageData implements ImageValues.                    *)
(***************************************************************************)
AsValues ==
    [o \in Objects |->
        IF o \notin alive THEN [state |-> "absent"]
        ELSE IF o \in lost THEN [state |-> "lost"]
        ELSE IF shape[o] = NoShape THEN [state |-> "empty"]
        ELSE [state |-> "image", shape |-> shape[o], value |-> Content(data[o], shape[o])]]

V == INSTANCE ImageValues

\* What the step taken does, when the images are i before and j after it.
OnImage(i, j, o) ==
    /\ ConstructEmpty(o) \/ (\E s \in Shape : Construct(o, s)) => V!Construct(i, j, o)
    /\ Scale(o) => V!Write(i, j, o)
    /\ Destroy(o) => V!Destroy(i, j, o)

OnImages(i, j, o, p) ==
    /\ CopyObject(o, p) => V!CopyConstruct(i, j, o, p)
    /\ CopyAssign(o, p) \/ CopyAssignFails(o, p) => V!CopyAssign(i, j, o, p)
    /\ MoveConstruct(o, p) \/ MoveAssign(o, p) => V!Move(i, j, o, p)
    /\ Combine(o, p) => V!Combine(i, j, o, p)
    /\ \A q \in Objects : Plus(o, p, q) => V!Plus(i, j, o, p, q)

OnSpan(i, j, k) ==
    /\ WriteSpan(k) => \E o \in Objects : data[o] = span[k].data /\ V!Write(i, j, o)
    /\ \A o \in Objects : CopySpan(o, k) =>
          \E p \in Objects : data[p] = span[k].data /\ V!CopyConstruct(i, j, o, p)

OnValues(i, j) ==
    /\ \A o \in Objects : OnImage(i, j, o) /\ \A p \in Objects : OnImages(i, j, o, p)
    /\ \A k \in Spans : OnSpan(i, j, k)

\* Each operation does to the images what it does to values, and nothing else:
\* no image changes through memory it shares with the target of an operation.
ImplementsValues ==
    /\ AsValues = V!Start
    /\ [][Sane' => OnValues(AsValues, AsValues')]_AsValues
=============================================================================
