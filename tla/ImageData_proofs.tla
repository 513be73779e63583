---------------------------- MODULE ImageData_proofs ----------------------------
(***************************************************************************)
(* Theorems about ImageData, for any objects, spans, blocks, numbers of    *)
(* dimensions, extents and widths of int.  What SizeOf and Offset compute  *)
(* matters to the section on the layout alone.                             *)
(***************************************************************************)
EXTENDS ImageData, SharedLemmas, TLAPS

(***************************************************************************)
(* The inductive invariant.                                                *)
(***************************************************************************)
MemTyped == mem \in [Block -> [size : Nat, value : Value]]

\* An image has the memory of its shape.
Sized == Sane => \A o \in Good : data[o] # Null => mem[data[o]].size = SizeOf[shape[o]]

\* A span with memory to see has memory.
Seen == \A k \in seeing : span[k].data # Null

IInv == TypeOK /\ MemTyped /\ NoLeak /\ OneOwner /\ Sized /\ Seen /\ SpansSee
-----------------------------------------------------------------------------
\* What is allocated and freed changes nothing else.
LEMMA Reallocating ==
    ASSUME TypeOK, MemTyped, NEW old \in Block \cup {Null}, NEW new \in Block \cup {Null},
           NEW n, NEW v \in Value, Reallocate(old, new, n, v)
    PROVE  /\ heap' = (heap \ {old}) \cup ({new} \ {Null}) /\ heap' \subseteq Block
           /\ MemTyped'
           /\ new # Null => new \in (Block \ heap) \cup {old} /\ mem'[new].size = n /\ mem'[new].value = v
           /\ \A b \in Block \ {old, new} : mem'[b] = mem[b]
           /\ seeing' \subseteq seeing
           /\ \A k \in seeing' : old = Null \/ span[k].data # old
<1> USE NullAssumption, ValuesAssumption DEF TypeOK, MemTyped, Reallocate, Value, Blank
<1>1. heap' = (heap \ {old}) \cup ({new} \ {Null}) /\ heap' \subseteq Block OBVIOUS
<1>2. \A b \in Block : /\ b = new => mem'[b] = [size |-> n, value |-> v] /\ n \in Nat
                       /\ b # new /\ b = old => mem'[b] = Blank
                       /\ b # new /\ b # old => mem'[b] = mem[b]
  OBVIOUS
<1>3. \A b \in Block : mem'[b] \in [size : Nat, value : Value]
  <2> TAKE b \in Block
  <2>1. CASE b = new
    <3>1. mem'[b] = [size |-> n, value |-> v] /\ n \in Nat BY <1>2, <2>1
    <3> QED BY <3>1
  <2>2. CASE b # new /\ b = old
    <3>1. Blank \in [size : Nat, value : Value] OBVIOUS
    <3> QED BY <1>2, <2>2, <3>1
  <2>3. CASE b # new /\ b # old BY <1>2, <2>3
  <2> QED BY <2>1, <2>2, <2>3
<1>4. MemTyped' BY <1>3
<1>5. new # Null => new \in (Block \ heap) \cup {old} /\ mem'[new].size = n /\ mem'[new].value = v
  BY <1>2
<1>6. \A b \in Block \ {old, new} : mem'[b] = mem[b] BY <1>2
<1>7. seeing' \subseteq seeing /\ \A k \in seeing' : old = Null \/ span[k].data # old OBVIOUS
<1> QED BY <1>1, <1>4, <1>5, <1>6, <1>7

\* Contents are values.
LEMMA ContentTyped ==
    ASSUME MemTyped, NEW b \in Block \cup {Null}, NEW s
    PROVE  Content(b, s) \in Value
BY ValuesAssumption DEF MemTyped, Content, Value

LEMMA CombinedTyped == \A x \in Value, y \in Value : Combined(x, y) \in Value /\ Combined(0, 0) = 0
BY ValuesAssumption DEF Combined, Value

\* The types of all but the memory.
ObjectsTyped ==
    /\ alive \subseteq Objects /\ lost \subseteq Objects /\ seeing \subseteq Spans
    /\ shape \in [Objects -> AnyShape] /\ data \in [Objects -> Block \cup {Null}]
    /\ span \in [Spans -> [data : Block \cup {Null}, shape : AnyShape]]
    /\ \A o \in Objects : data[o] = Null => shape[o] = NoShape \/ o \in lost

LEMMA TypeParts ==
    /\ TypeOK => ObjectsTyped /\ heap \subseteq Block
    /\ MemTyped /\ ObjectsTyped /\ heap \subseteq Block => TypeOK
<1>1. MemTyped => \A b \in Block : mem[b].size \in Nat /\ mem[b].value \in Value BY DEF MemTyped
<1> QED BY <1>1 DEF TypeOK, ObjectsTyped

LEMMA TypePartsNext == MemTyped' /\ ObjectsTyped' /\ heap' \subseteq Block => TypeOK'
<1>1. (MemTyped /\ ObjectsTyped /\ heap \subseteq Block => TypeOK)' BY TypeParts, PTL
<1> QED BY <1>1
-----------------------------------------------------------------------------
(***************************************************************************)
(* The invariant is kept, operation by operation.                          *)
(***************************************************************************)
LEMMA InitInvariant == Init => IInv
<1> SUFFICES ASSUME Init PROVE IInv OBVIOUS
<1> USE DEF Init
<1>1. ObjectsTyped BY DEF ObjectsTyped, AnyShape
<1>2. MemTyped BY ValuesAssumption DEF MemTyped, Blank, Value
<1>3. TypeOK BY <1>1, <1>2, TypeParts
<1> QED BY <1>2, <1>3 DEF IInv, NoLeak, OneOwner, Sized, Seen, SpansSee, Good

\* An object comes to life, with no memory or with new memory of its own.
LEMMA Entering ==
    ASSUME IInv, NEW o \in Objects, NEW s \in AnyShape, NEW d \in Block \cup {Null}, Begins(o, s, d),
           \/ d = Null /\ s = NoShape /\ UNCHANGED <<heapVars, seeing>>
           \/ d \in Block /\ \E v \in Value : New(d, SizeOf[s], v)
    PROVE  IInv'
<1>1. /\ TypeOK /\ ObjectsTyped /\ MemTyped /\ heap \subseteq Block /\ Null \notin Block
  BY TypeParts, NullAssumption DEF IInv
<1>2. /\ o \notin alive /\ o \notin lost /\ alive' = alive \cup {o} /\ lost' = lost /\ span' = span
      /\ shape'[o] = s /\ data'[o] = d
      /\ \A x \in Objects \ {o} : shape'[x] = shape[x] /\ data'[x] = data[x]
      /\ shape' \in [Objects -> AnyShape] /\ data' \in [Objects -> Block \cup {Null}]
  BY <1>1 DEF Begins, Fresh, ObjectsTyped
<1>3. /\ MemTyped' /\ heap' \subseteq Block /\ heap' = heap \cup ({d} \ {Null}) /\ seeing' \subseteq seeing
      /\ d # Null => d \notin heap /\ mem'[d].size = SizeOf[s]
      /\ \A b \in Block \ {d} : mem'[b] = mem[b]
  <2>1. CASE d = Null /\ UNCHANGED <<heapVars, seeing>> BY <1>1, <2>1 DEF heapVars, MemTyped
  <2>2. CASE d \in Block /\ \E v \in Value : New(d, SizeOf[s], v)
    <3>1. PICK v \in Value : d \in Block \ heap /\ Reallocate(Null, d, SizeOf[s], v) BY <2>2 DEF New
    <3> QED BY <1>1, <3>1, Reallocating
  <2> QED BY <2>1, <2>2
<1>4. Good' = Good \cup {o} /\ o \notin Good /\ Good \subseteq Objects /\ (Sane' => Sane)
  BY <1>1, <1>2 DEF Good, Sane, ObjectsTyped
<1>5. ObjectsTyped'
  <2>1. \A x \in Objects : data'[x] = Null => shape'[x] = NoShape \/ x \in lost'
    BY <1>1, <1>2 DEF ObjectsTyped
  <2> QED BY <1>1, <1>2, <1>3, <2>1 DEF ObjectsTyped
<1>6. TypeOK' BY <1>3, <1>5, TypePartsNext
<1>7. NoLeak'
  <2> SUFFICES ASSUME NEW b \in heap' PROVE \E x \in alive' : data'[x] = b BY DEF NoLeak
  <2>1. CASE b \in heap
    <3>1. PICK x \in alive : data[x] = b BY <2>1 DEF IInv, NoLeak
    <3> QED BY <1>1, <1>2, <3>1 DEF ObjectsTyped
  <2>2. CASE b = d BY <1>2, <2>2
  <2> QED BY <1>3, <2>1, <2>2
<1>8. OneOwner'
  <2> SUFFICES ASSUME Sane', NEW x \in Good', NEW y \in Good', data'[x] # Null
               PROVE  data'[x] \in heap' /\ (data'[x] = data'[y] => x = y)
    BY DEF OneOwner
  <2>1. \A z \in Good : data[z] # Null => data[z] \in heap BY <1>4 DEF IInv, OneOwner
  <2>2. \A z \in Good : data'[z] = data[z] BY <1>2, <1>4
  <2>3. CASE x \in Good /\ y \in Good BY <1>2, <1>3, <1>4, <2>2, <2>3 DEF IInv, OneOwner
  <2>4. CASE x = o \/ y = o BY <1>2, <1>3, <1>4, <2>1, <2>2, <2>4
  <2> QED BY <1>4, <2>3, <2>4
<1>9. Sized'
  <2> SUFFICES ASSUME Sane', NEW x \in Good', data'[x] # Null
               PROVE  mem'[data'[x]].size = SizeOf[shape'[x]]
    BY DEF Sized
  <2>1. CASE x = o BY <1>2, <1>3, <2>1
  <2>2. CASE x \in Good
    <3>1. data'[x] = data[x] /\ shape'[x] = shape[x] BY <1>2, <1>4, <2>2
    <3>2. data[x] \in heap /\ mem[data[x]].size = SizeOf[shape[x]]
      BY <1>4, <2>2, <3>1 DEF IInv, OneOwner, Sized
    <3>3. data[x] \in Block \ {d} BY <1>1, <1>3, <3>1, <3>2
    <3> QED BY <1>3, <3>1, <3>2, <3>3
  <2> QED BY <1>4, <2>1, <2>2
<1>10. Seen' BY <1>2, <1>3 DEF IInv, Seen
<1>11. SpansSee'
  <2> SUFFICES ASSUME Sane', NEW k \in seeing'
               PROVE  \E x \in Good' : data'[x] = span'[k].data /\ shape'[x] = span'[k].shape
    BY DEF SpansSee
  <2>1. PICK x \in Good : data[x] = span[k].data /\ shape[x] = span[k].shape
    BY <1>3, <1>4 DEF IInv, SpansSee
  <2> QED BY <1>2, <1>4, <2>1
<1> QED BY <1>3, <1>6, <1>7, <1>8, <1>9, <1>10, <1>11 DEF IInv

\* What belongs to an object p passes to o, which has no memory any more.
LEMMA Passing ==
    ASSUME IInv, NEW o \in Objects, NEW p \in Good, o # p,
           o \in Good \/ (o \notin alive /\ o \notin lost),
           alive' = alive \cup {o}, lost' = lost, span' = span,
           shape' = Reset([shape EXCEPT ![o] = shape[p]], p, NoShape),
           data' = Reset([data EXCEPT ![o] = data[p]], p, Null),
           \/ o \in Good /\ Delete(data[o])
           \/ o \notin alive /\ UNCHANGED <<heapVars, seeing>>
    PROVE  IInv'
<1>1. /\ TypeOK /\ ObjectsTyped /\ MemTyped /\ heap \subseteq Block /\ Null \notin Block /\ p \in Objects
  BY TypeParts, NullAssumption DEF IInv, ObjectsTyped, Good
<1>2. /\ shape'[o] = shape[p] /\ data'[o] = data[p] /\ shape'[p] = NoShape /\ data'[p] = Null
      /\ \A x \in Objects \ {o, p} : shape'[x] = shape[x] /\ data'[x] = data[x]
      /\ shape' \in [Objects -> AnyShape] /\ data' \in [Objects -> Block \cup {Null}]
  BY <1>1 DEF Reset, ObjectsTyped, AnyShape
<1> PICK old \in Block \cup {Null} : old = IF o \in Good THEN data[o] ELSE Null
  BY <1>1 DEF ObjectsTyped
<1>3. /\ MemTyped' /\ heap' \subseteq Block /\ heap' = heap \ {old} /\ seeing' \subseteq seeing
      /\ \A b \in Block \ {old} : mem'[b] = mem[b]
      /\ \A k \in seeing' : old = Null \/ span[k].data # old
  <2>1. CASE o \notin alive /\ UNCHANGED <<heapVars, seeing>>
    <3>1. old = Null BY <2>1 DEF Good
    <3> QED BY <1>1, <2>1, <3>1 DEF heapVars, MemTyped
  <2>2. CASE o \in Good /\ Delete(data[o])
    <3>1. Reallocate(old, Null, 0, 0) /\ 0 \in Value BY <2>2, ValuesAssumption DEF Delete, Value
    <3> QED BY <1>1, <3>1, Reallocating
  <2> QED BY <2>1, <2>2
<1>4. Good' = Good \cup {o} /\ Good \subseteq Objects /\ (Sane' => Sane)
  BY <1>1 DEF Good, Sane, ObjectsTyped
<1>5. ObjectsTyped'
  <2>1. \A x \in Objects : data'[x] = Null => shape'[x] = NoShape \/ x \in lost'
    BY <1>1, <1>2 DEF ObjectsTyped, Good
  <2> QED BY <1>1, <1>2, <1>3, <2>1 DEF ObjectsTyped
<1>6. TypeOK' BY <1>3, <1>5, TypePartsNext
<1>7. NoLeak'
  <2> SUFFICES ASSUME NEW b \in heap' PROVE \E x \in alive' : data'[x] = b BY DEF NoLeak
  <2>1. b \in heap /\ b # old BY <1>3
  <2>2. PICK x \in alive : data[x] = b BY <2>1 DEF IInv, NoLeak
  <2>3. x # o BY <2>1, <2>2 DEF Good
  <2>4. data'[IF x = p THEN o ELSE x] = b BY <1>1, <1>2, <2>2, <2>3 DEF ObjectsTyped
  <2> QED BY <2>2, <2>4
\* Who had the memory that x has after the step.
<1> DEFINE from(x) == IF x = o THEN p ELSE x
<1>8. ASSUME Sane', NEW x \in Good', data'[x] # Null
      PROVE  /\ from(x) \in Good /\ data'[x] = data[from(x)] /\ shape'[x] = shape[from(x)]
             /\ x # p /\ data[from(x)] \in heap /\ data[from(x)] \in Block \ {old}
  <2>1. x # p BY <1>2, <1>8
  <2>2. from(x) \in Good /\ data'[x] = data[from(x)] /\ shape'[x] = shape[from(x)]
    BY <1>1, <1>2, <1>4, <1>8, <2>1
  <2>3. data[from(x)] \in heap BY <1>4, <1>8, <2>2 DEF IInv, OneOwner
  <2>4. data[from(x)] # old
    <3>1. from(x) # o OBVIOUS
    <3> QED BY <1>1, <1>4, <1>8, <2>2, <2>3, <3>1 DEF IInv, OneOwner
  <2> QED BY <1>1, <2>1, <2>2, <2>3, <2>4
<1>9. OneOwner'
  <2> SUFFICES ASSUME Sane', NEW x \in Good', NEW y \in Good', data'[x] # Null
               PROVE  data'[x] \in heap' /\ (data'[x] = data'[y] => x = y)
    BY DEF OneOwner
  <2>1. data'[x] \in heap' BY <1>3, <1>8
  <2>2. ASSUME data'[x] = data'[y] PROVE x = y
    <3>1. from(x) = from(y)
      <4>1. data'[y] # Null BY <2>2
      <4>2. from(x) \in Good /\ from(y) \in Good /\ data[from(x)] # Null /\ data[from(x)] = data[from(y)]
        BY <1>8, <2>2, <4>1
      <4> HIDE DEF from
      <4> QED BY <1>4, <4>2 DEF IInv, OneOwner
    <3>2. x # p /\ y # p BY <1>8, <2>2
    <3> QED BY <3>1, <3>2
  <2> QED BY <2>1, <2>2
<1>10. Sized'
  <2> SUFFICES ASSUME Sane', NEW x \in Good', data'[x] # Null
               PROVE  mem'[data'[x]].size = SizeOf[shape'[x]]
    BY DEF Sized
  <2>1. mem[data[from(x)]].size = SizeOf[shape[from(x)]]
    <3>1. from(x) \in Good /\ data[from(x)] # Null BY <1>8
    <3> HIDE DEF from
    <3> QED BY <1>4, <3>1 DEF IInv, Sized
  <2> HIDE DEF from
  <2> QED BY <1>3, <1>8, <2>1
<1>11. Seen' BY <1>3 DEF IInv, Seen
<1>12. SpansSee'
  <2> SUFFICES ASSUME Sane', NEW k \in seeing'
               PROVE  \E x \in Good' : data'[x] = span'[k].data /\ shape'[x] = span'[k].shape
    BY DEF SpansSee
  <2>1. PICK x \in Good : data[x] = span[k].data /\ shape[x] = span[k].shape
    BY <1>3, <1>4 DEF IInv, SpansSee
  <2>2. x # o BY <1>3, <2>1 DEF IInv, Seen, Good
  <2>3. CASE x = p BY <1>2, <1>4, <2>1, <2>3
  <2>4. CASE x # p BY <1>2, <1>4, <2>1, <2>2, <2>4
  <2> QED BY <2>3, <2>4
<1> QED BY <1>3, <1>6, <1>7, <1>9, <1>10, <1>11, <1>12 DEF IInv

\* An image gets new memory in the place of what it had, for another shape.
LEMMA Refilling ==
    ASSUME IInv, NEW o \in Good, NEW s \in AnyShape, NEW b \in Block, NEW v \in Value,
           Reallocate(data[o], b, SizeOf[s], v), UNCHANGED <<alive, lost, span>>,
           shape' = [shape EXCEPT ![o] = s], data' = [data EXCEPT ![o] = b]
    PROVE  IInv'
<1>1. /\ TypeOK /\ ObjectsTyped /\ MemTyped /\ heap \subseteq Block /\ Null \notin Block /\ o \in Objects
      /\ data[o] \in Block \cup {Null}
  BY TypeParts, NullAssumption DEF IInv, ObjectsTyped, Good
<1>2. /\ shape'[o] = s /\ data'[o] = b
      /\ \A x \in Objects \ {o} : shape'[x] = shape[x] /\ data'[x] = data[x]
      /\ shape' \in [Objects -> AnyShape] /\ data' \in [Objects -> Block \cup {Null}]
  BY <1>1 DEF ObjectsTyped
<1>3. /\ MemTyped' /\ heap' \subseteq Block /\ heap' = (heap \ {data[o]}) \cup {b} /\ seeing' \subseteq seeing
      /\ b \notin heap \/ b = data[o]
      /\ mem'[b].size = SizeOf[s]
      /\ \A a \in Block \ {data[o], b} : mem'[a] = mem[a]
      /\ \A k \in seeing' : data[o] = Null \/ span[k].data # data[o]
  BY <1>1, Reallocating
<1>4. Good' = Good /\ Good \subseteq Objects /\ (Sane' <=> Sane)
  BY <1>1 DEF Good, Sane, ObjectsTyped
<1>5. ObjectsTyped' BY <1>1, <1>2, <1>3 DEF ObjectsTyped
<1>6. TypeOK' BY <1>3, <1>5, TypePartsNext
<1>7. NoLeak'
  <2> SUFFICES ASSUME NEW a \in heap' PROVE \E x \in alive' : data'[x] = a BY DEF NoLeak
  <2>1. CASE a = b BY <1>2, <2>1 DEF Good
  <2>2. CASE a \in heap /\ a # data[o]
    <3>1. PICK x \in alive : data[x] = a BY <2>2 DEF IInv, NoLeak
    <3> QED BY <1>1, <1>2, <2>2, <3>1 DEF ObjectsTyped
  <2> QED BY <1>3, <2>1, <2>2
<1>8. ASSUME Sane, NEW x \in Good, x # o, data[x] # Null
      PROVE  data[x] \in heap' /\ data[x] # b /\ data[x] \in Block \ {data[o], b}
  <2>1. data[x] \in heap /\ data[x] # data[o] BY <1>8 DEF IInv, OneOwner
  <2> QED BY <1>1, <1>3, <2>1
<1>9. OneOwner'
  <2> SUFFICES ASSUME Sane, NEW x \in Good, NEW y \in Good, data'[x] # Null
               PROVE  data'[x] \in heap' /\ (data'[x] = data'[y] => x = y)
    BY <1>4 DEF OneOwner
  <2>1. CASE x = o
    <3>1. ASSUME y # o PROVE data'[y] # b BY <1>1, <1>2, <1>4, <1>8, <3>1
    <3> QED BY <1>2, <1>3, <2>1, <3>1
  <2>2. CASE x # o BY <1>2, <1>4, <1>8, <2>2 DEF IInv, OneOwner
  <2> QED BY <2>1, <2>2
<1>10. Sized'
  <2> SUFFICES ASSUME Sane, NEW x \in Good, data'[x] # Null
               PROVE  mem'[data'[x]].size = SizeOf[shape'[x]]
    BY <1>4 DEF Sized
  <2>1. CASE x = o BY <1>2, <1>3, <2>1
  <2>2. CASE x # o
    <3>1. data'[x] = data[x] /\ shape'[x] = shape[x] BY <1>2, <1>4, <2>2
    <3> QED BY <1>3, <1>8, <2>2, <3>1 DEF IInv, Sized
  <2> QED BY <2>1, <2>2
<1>11. Seen' BY <1>3 DEF IInv, Seen
<1>12. SpansSee'
  <2> SUFFICES ASSUME Sane, NEW k \in seeing'
               PROVE  \E x \in Good : data'[x] = span'[k].data /\ shape'[x] = span'[k].shape
    BY <1>4 DEF SpansSee
  <2>1. PICK x \in Good : data[x] = span[k].data /\ shape[x] = span[k].shape
    BY <1>3, <1>4 DEF IInv, SpansSee
  <2>2. x # o BY <1>3, <2>1 DEF IInv, Seen
  <2> QED BY <1>2, <1>4, <2>1, <2>2
<1> QED BY <1>3, <1>6, <1>7, <1>9, <1>10, <1>11, <1>12 DEF IInv

\* The memory of object o is freed, which is no image after that.
LEMMA Freeing ==
    ASSUME IInv, NEW o \in alive, Delete(data[o]), ObjectsTyped', span' = span,
           \A x \in Objects \ {o} : /\ shape'[x] = shape[x] /\ data'[x] = data[x]
                                    /\ x \in alive => x \in alive',
           Good' = Good \ {o}, Sane' => Sane /\ o \in Good
    PROVE  IInv'
<1>1. /\ TypeOK /\ ObjectsTyped /\ MemTyped /\ heap \subseteq Block /\ Null \notin Block /\ o \in Objects
      /\ data[o] \in Block \cup {Null} /\ Good \subseteq Objects /\ alive \subseteq Objects
  BY TypeParts, NullAssumption DEF IInv, ObjectsTyped, Good
<1>2. /\ MemTyped' /\ heap' \subseteq Block /\ heap' = heap \ {data[o]} /\ seeing' \subseteq seeing
      /\ \A a \in Block \ {data[o]} : mem'[a] = mem[a]
      /\ \A k \in seeing' : data[o] = Null \/ span[k].data # data[o]
  <2>1. Reallocate(data[o], Null, 0, 0) /\ 0 \in Value BY ValuesAssumption DEF Delete, Value
  <2> QED BY <1>1, <2>1, Reallocating
<1>3. TypeOK' BY <1>2, TypePartsNext
<1>4. NoLeak'
  <2> SUFFICES ASSUME NEW b \in heap' PROVE \E x \in alive' : data'[x] = b BY DEF NoLeak
  <2>1. PICK x \in alive : data[x] = b BY <1>2 DEF IInv, NoLeak
  <2>2. x # o BY <1>2, <2>1
  <2> QED BY <1>1, <2>1, <2>2
<1>5. ASSUME Sane', NEW x \in Good', data[x] # Null
      PROVE  data[x] \in heap' /\ data[x] \in Block \ {data[o]}
  BY <1>1, <1>2, <1>5 DEF IInv, OneOwner
<1>6. OneOwner'
  <2> SUFFICES ASSUME Sane', NEW x \in Good', NEW y \in Good', data'[x] # Null
               PROVE  data'[x] \in heap' /\ (data'[x] = data'[y] => x = y)
    BY DEF OneOwner
  <2>1. data'[x] = data[x] /\ data'[y] = data[y] BY <1>1
  <2> QED BY <1>5, <2>1 DEF IInv, OneOwner
<1>7. Sized'
  <2> SUFFICES ASSUME Sane', NEW x \in Good', data'[x] # Null
               PROVE  mem'[data'[x]].size = SizeOf[shape'[x]]
    BY DEF Sized
  <2>1. data'[x] = data[x] /\ shape'[x] = shape[x] BY <1>1
  <2> QED BY <1>2, <1>5, <2>1 DEF IInv, Sized
<1>8. Seen' BY <1>2 DEF IInv, Seen
<1>9. SpansSee'
  <2> SUFFICES ASSUME Sane', NEW k \in seeing'
               PROVE  \E x \in Good' : data'[x] = span'[k].data /\ shape'[x] = span'[k].shape
    BY DEF SpansSee
  <2>1. PICK x \in Good : data[x] = span[k].data /\ shape[x] = span[k].shape
    BY <1>2 DEF IInv, SpansSee
  <2>2. x # o BY <1>2, <2>1 DEF IInv, Seen
  <2> QED BY <1>1, <2>1, <2>2
<1> QED BY <1>2, <1>3, <1>4, <1>6, <1>7, <1>8, <1>9 DEF IInv

\* Elements are written.
LEMMA Storing ==
    ASSUME IInv, NEW b, NEW v \in Value, Store(b, v)
    PROVE  IInv'
<1>1. TypeOK /\ ObjectsTyped /\ MemTyped /\ heap \subseteq Block BY TypeParts DEF IInv
<1>2. UNCHANGED <<alive, lost, seeing, shape, data, span, heap>>
  BY DEF Store, objVars, spanVars
<1>3. MemTyped' /\ \A a \in Block : mem'[a].size = mem[a].size BY <1>1 DEF Store, MemTyped
<1>4. ObjectsTyped' BY <1>1, <1>2 DEF ObjectsTyped
<1>5. TypeOK' BY <1>1, <1>2, <1>3, <1>4, TypePartsNext
<1>6. NoLeak' BY <1>2 DEF IInv, NoLeak
<1>7. OneOwner' BY <1>2 DEF IInv, OneOwner, Sane, Good
<1>8. Sized'
  <2> SUFFICES ASSUME Sane, NEW x \in Good, data[x] # Null
               PROVE  mem'[data[x]].size = SizeOf[shape[x]]
    BY <1>2 DEF Sized, Sane, Good
  <2>1. data[x] \in Block BY <1>1 DEF IInv, OneOwner
  <2> QED BY <1>3, <2>1 DEF IInv, Sized
<1>9. Seen' BY <1>2 DEF IInv, Seen
<1>10. SpansSee' BY <1>2 DEF IInv, SpansSee, Sane, Good
<1> QED BY <1>3, <1>5, <1>6, <1>7, <1>8, <1>9, <1>10 DEF IInv

\* A span is taken of an image.
LEMMA Viewing ==
    ASSUME IInv, NEW k \in Spans, NEW o \in Objects, TakeSpan(k, o)
    PROVE  IInv'
<1>1. TypeOK /\ ObjectsTyped /\ MemTyped /\ heap \subseteq Block BY TypeParts DEF IInv
<1>2. /\ UNCHANGED <<alive, lost, shape, data, heap, mem>> /\ seeing' = seeing \cup {k}
      /\ o \in Good /\ data[o] # Null
      /\ span' \in [Spans -> [data : Block \cup {Null}, shape : AnyShape]]
      /\ span'[k].data = data[o] /\ span'[k].shape = shape[o]
      /\ \A l \in Spans \ {k} : span'[l] = span[l]
  BY <1>1 DEF TakeSpan, objVars, heapVars, Usable, Good, ObjectsTyped
<1>3. MemTyped' /\ ObjectsTyped' BY <1>1, <1>2 DEF ObjectsTyped, MemTyped
<1>4. TypeOK' BY <1>1, <1>2, <1>3, TypePartsNext
<1>5. NoLeak' /\ OneOwner' /\ Sized'
  BY <1>2 DEF IInv, NoLeak, OneOwner, Sized, Sane, Good
<1>6. Seen' BY <1>1, <1>2 DEF IInv, Seen, ObjectsTyped
<1>7. SpansSee'
  <2> SUFFICES ASSUME Sane, NEW l \in seeing'
               PROVE  \E x \in Good : data[x] = span'[l].data /\ shape[x] = span'[l].shape
    BY <1>2 DEF SpansSee, Sane, Good
  <2>1. CASE l = k BY <1>2, <2>1
  <2>2. CASE l # k BY <1>1, <1>2, <2>2 DEF IInv, SpansSee, ObjectsTyped
  <2> QED BY <2>1, <2>2
<1> QED BY <1>3, <1>4, <1>5, <1>6, <1>7 DEF IInv

LEMMA NextInvariant == IInv /\ [Next]_vars => IInv'
<1> SUFFICES ASSUME IInv, [Next]_vars PROVE IInv' OBVIOUS
<1>1. /\ TypeOK /\ ObjectsTyped /\ MemTyped /\ Good = alive \ lost /\ Good \subseteq Objects
      /\ \A o \in Objects : shape[o] \in AnyShape /\ data[o] \in Block \cup {Null}
      /\ \A k \in Spans : span[k].shape \in AnyShape /\ span[k].data \in Block \cup {Null}
      /\ NoShape \in AnyShape /\ Shape \subseteq AnyShape /\ seeing \subseteq Spans
  BY TypeParts DEF IInv, ObjectsTyped, Good, AnyShape
<1>2. CASE UNCHANGED vars
  <2>1. UNCHANGED <<alive, lost, seeing, shape, data, span, heap, mem>>
    BY <1>2 DEF vars, objVars, heapVars, spanVars
  <2> QED BY <2>1 DEF IInv, TypeOK, MemTyped, NoLeak, OneOwner, Sized, Seen, SpansSee, Sane, Good
<1>3. ASSUME NEW o \in Objects, NEW s \in AnyShape, NEW b \in Block, NEW v \in Value,
             Begins(o, s, b), New(b, SizeOf[s], v)
      PROVE  IInv'
  BY <1>3, Entering
<1>4. ASSUME NEW o \in Objects, NEW s \in AnyShape, NEW d \in Block \cup {Null}, CopyConstruct(o, s, d)
      PROVE  IInv'
  <2>1. Content(d, s) \in Value BY <1>1, ContentTyped
  <2> QED BY <1>3, <1>4, <2>1 DEF CopyConstruct
<1>5. ASSUME NEW o \in Objects, ConstructEmpty(o) PROVE IInv'
  BY <1>1, <1>5, Entering DEF ConstructEmpty
<1>6. ASSUME NEW o \in Objects, NEW s \in Shape, Construct(o, s) PROVE IInv'
  BY <1>1, <1>3, <1>6 DEF Construct
<1>7. ASSUME NEW o \in Objects, NEW p \in Objects, CopyObject(o, p) PROVE IInv'
  BY <1>1, <1>4, <1>7 DEF CopyObject
<1>8. ASSUME NEW o \in Objects, NEW k \in Spans, CopySpan(o, k) PROVE IInv'
  BY <1>1, <1>4, <1>8 DEF CopySpan
<1>9. ASSUME NEW o \in Objects, NEW p \in Objects, NEW q \in Objects, Plus(o, p, q) PROVE IInv'
  <2>1. Combined(Content(data[p], shape[p]), Content(data[q], shape[q])) \in Value
    BY <1>1, ContentTyped, CombinedTyped
  <2> QED BY <1>1, <1>3, <1>9, <2>1 DEF Plus
<1>10. ASSUME NEW o \in Objects, NEW p \in Objects, MoveConstruct(o, p) PROVE IInv'
  BY <1>1, <1>10, Passing DEF MoveConstruct, Usable, Fresh, spanVars
<1>11. ASSUME NEW o \in Objects, NEW p \in Objects, MoveAssign(o, p) PROVE IInv'
  <2>1. o \in Good /\ p \in Good /\ o # p /\ alive' = alive \cup {o} BY <1>1, <1>11 DEF MoveAssign, Usable
  <2> QED BY <1>11, <2>1, Passing DEF MoveAssign
<1>12. ASSUME NEW o \in Objects, NEW p \in Objects, CopyAssign(o, p) PROVE IInv'
  <2>1. o \in Good /\ Content(data[p], shape[p]) \in Value
    BY <1>1, <1>12, ContentTyped DEF CopyAssign, Usable
  <2> QED BY <1>1, <1>12, <2>1, Refilling DEF CopyAssign
<1>13. ASSUME NEW o \in Objects, NEW p \in Objects, CopyAssignFails(o, p) PROVE IInv'
  <2>1. /\ o \in Good /\ Good' = Good \ {o} /\ (Sane' => Sane) /\ alive' = alive /\ span' = span
        /\ data' = data /\ \A x \in Objects \ {o} : shape'[x] = shape[x]
        /\ Delete(data[o])
    BY <1>1, <1>13 DEF CopyAssignFails, Usable, Good, Sane, ObjectsTyped
  <2>2. seeing' \subseteq seeing BY <2>1 DEF Delete, Reallocate
  <2>3. ObjectsTyped' BY <1>1, <1>13, <2>1, <2>2 DEF CopyAssignFails, ObjectsTyped
  <2>4. o \in alive BY <2>1 DEF Good
  <2> QED BY <2>1, <2>3, <2>4, Freeing
<1>14. ASSUME NEW o \in Objects, Destroy(o) PROVE IInv'
  <2>1. /\ o \in alive /\ alive' = alive \ {o} /\ lost' = lost /\ span' = span
        /\ shape' = [shape EXCEPT ![o] = NoShape] /\ data' = [data EXCEPT ![o] = Null]
        /\ Delete(data[o])
    BY <1>14 DEF Destroy
  <2>2. Good' = Good \ {o} /\ (Sane' => Sane /\ o \in Good) BY <2>1 DEF Good, Sane
  <2>3. seeing' \subseteq seeing BY <2>1 DEF Delete, Reallocate
  <2>4. ObjectsTyped' BY <1>1, <2>1, <2>3 DEF ObjectsTyped
  <2>5. \A x \in Objects \ {o} : /\ shape'[x] = shape[x] /\ data'[x] = data[x]
                                 /\ x \in alive => x \in alive'
    BY <1>1, <2>1 DEF ObjectsTyped
  <2> QED BY <2>1, <2>2, <2>4, <2>5, Freeing
<1>15. ASSUME NEW o \in Objects, NEW p \in Objects, Combine(o, p) PROVE IInv'
  <2>1. Combined(Content(data[o], shape[o]), Content(data[p], shape[p])) \in Value
    BY <1>1, ContentTyped, CombinedTyped
  <2> QED BY <1>15, <2>1, Storing DEF Combine
<1>16. ASSUME NEW o \in Objects, Scale(o) PROVE IInv' BY <1>16, Storing DEF Scale
<1>17. ASSUME NEW k \in Spans, WriteSpan(k) PROVE IInv' BY <1>17, Storing DEF WriteSpan
<1>18. ASSUME NEW k \in Spans, NEW o \in Objects, TakeSpan(k, o) PROVE IInv' BY <1>18, Viewing
<1> QED BY <1>2, <1>5, <1>6, <1>7, <1>8, <1>9, <1>10, <1>11, <1>12, <1>13, <1>14, <1>15, <1>16, <1>17, <1>18
        DEF Next

THEOREM Invariance == Spec => []IInv
BY InitInvariant, NextInvariant, PTL DEF Spec

\* The memory of an image is its own, and no memory is left without an image.
THEOREM OwnersOfMemory == Spec => []Owned
<1>1. IInv => Owned BY DEF IInv, Owned
<1> QED BY <1>1, Invariance, PTL

\* The memory of an image has the number of elements computed for the shape
\* the image has now, whatever was copied, moved or reallocated.
THEOREM MemoryFitsShape == Spec => []Sized
<1>1. IInv => Sized BY DEF IInv
<1> QED BY <1>1, Invariance, PTL

\* Until its memory is freed a span shows one whole image.
THEOREM SpansAreImages == Spec => []SpansSee
<1>1. IInv => SpansSee BY DEF IInv
<1> QED BY <1>1, Invariance, PTL
-----------------------------------------------------------------------------
(***************************************************************************)
(* Where the elements lie.  From dimension d on an image is s[d] blocks    *)
(* of as many elements as it has from dimension d + 1 on, one after        *)
(* another: the offset is a number written in a mixed radix.               *)
(***************************************************************************)
\* How many elements there are from each dimension on, 1 after the last.
Elements(s) ==
    [d \in 1 .. Ndim + 1 |-> IF d = 1 THEN s[1] * Strides[s][1] ELSE Strides[s][d - 1]]

\* The part of an offset that is due to the dimensions from each one on.
From(s, index) ==
    CHOOSE from : from = [d \in 1 .. Ndim + 1 |->
                              IF d > Ndim THEN 0 ELSE index[d] * Strides[s][d] + from[d + 1]]

LEMMA ShapeTyped == \A s \in AnyShape : s \in [1 .. Ndim -> Nat]
<1>1. Shape \subseteq [1 .. Ndim -> Nat] BY ExtentsAssumption DEF Shape
<1>2. NoShape \in [1 .. Ndim -> Nat] BY DEF NoShape
<1> QED BY <1>1, <1>2 DEF AnyShape

LEMMA IndexTyped ==
    ASSUME NEW s \in AnyShape
    PROVE  Index(s) = {i \in [1 .. Ndim -> Nat] : \A d \in 1 .. Ndim : i[d] < s[d]}
<1> DEFINE U == UNION {0 .. s[d] - 1 : d \in 1 .. Ndim}
<1>1. s \in [1 .. Ndim -> Nat] BY ShapeTyped
<1>2. U \subseteq Nat BY <1>1
<1>3. ASSUME NEW i \in [1 .. Ndim -> Nat], \A d \in 1 .. Ndim : i[d] < s[d] PROVE i \in [1 .. Ndim -> U]
  <2>1. \A d \in 1 .. Ndim : i[d] \in 0 .. s[d] - 1 BY <1>1, <1>3
  <2> QED BY <2>1
<1> HIDE DEF U
<1>4. \A i \in [1 .. Ndim -> U] : i \in [1 .. Ndim -> Nat] BY <1>2
<1>5. Index(s) = {i \in [1 .. Ndim -> U] : \A d \in 1 .. Ndim : i[d] < s[d]} BY DEF Index, U
<1> QED BY <1>3, <1>4, <1>5

\* The strides go on as the recursion says.
LEMMA StridesAre ==
    ASSUME NEW s \in AnyShape
    PROVE  /\ Strides[s] \in [1 .. Ndim -> Nat] /\ Strides[s][Ndim] = 1
           /\ \A d \in 1 .. Ndim - 1 : Strides[s][d] = Strides[s][d + 1] * s[d + 1]
<1>1. s \in [1 .. Ndim -> Nat] /\ Ndim \in Nat /\ Ndim >= 1 BY ShapeTyped, NdimAssumption
<1> DEFINE Final == Ndim - 1
           F == [n \in 1 .. Final |-> [v \in Int |-> v * s[Ndim - n + 1]]]
           Follows(st) == st = [i \in 1 .. Ndim |-> IF i = Ndim THEN 1 ELSE st[i + 1] * s[i + 1]]
<1>2. PICK f \in [0 .. Final -> Int] : f[0] = 1 /\ \A n \in 1 .. Final : f[n] = F[n][f[n - 1]]
  <2>1. Final \in Nat /\ 1 \in Int /\ F \in [1 .. Final -> [Int -> Int]]
    <3>1. \A n \in 1 .. Final, v \in Int : v * s[Ndim - n + 1] \in Int
      <4> TAKE n \in 1 .. Final, v \in Int
      <4>1. Ndim - n + 1 \in 1 .. Ndim BY <1>1
      <4> QED BY <1>1, <4>1
    <3> QED BY <1>1, <3>1
  <2> HIDE DEF F, Final
  <2> QED BY <2>1, Recursion
<1> DEFINE g == [i \in 1 .. Ndim |-> f[Ndim - i]]
<1>3. Follows(g)
  <2>1. ASSUME NEW i \in 1 .. Ndim PROVE g[i] = IF i = Ndim THEN 1 ELSE g[i + 1] * s[i + 1]
    <3>1. CASE i = Ndim BY <1>1, <1>2, <3>1
    <3>2. CASE i # Ndim
      <4>1. Ndim - i \in 1 .. Final /\ i + 1 \in 1 .. Ndim /\ Ndim - (Ndim - i) + 1 = i + 1 /\ (Ndim - i) - 1 = Ndim - (i + 1)
        BY <1>1, <3>2
      <4>2. f[Ndim - (i + 1)] \in Int BY <1>1, <1>2, <4>1
      <4>3. f[Ndim - i] = f[Ndim - (i + 1)] * s[i + 1] BY <1>2, <4>1, <4>2
      <4> QED BY <3>2, <4>1, <4>3
    <3> QED BY <3>1, <3>2
  <2> QED BY <2>1
<1>4. Follows(Strides[s])
  <2>1. Strides[s] = CHOOSE st : Follows(st) BY DEF Strides
  <2> HIDE DEF g, Follows
  <2> QED BY <1>3, <2>1
<1> DEFINE t == Strides[s]
<1>5. /\ t = [i \in 1 .. Ndim |-> t[i]] /\ t[Ndim] = 1
      /\ \A d \in 1 .. Ndim - 1 : t[d] = t[d + 1] * s[d + 1]
  <2> HIDE DEF t
  <2>1. Follows(t) BY <1>4 DEF t
  <2>2. \A i \in 1 .. Ndim : t[i] = IF i = Ndim THEN 1 ELSE t[i + 1] * s[i + 1] BY <2>1
  <2>3. t = [i \in 1 .. Ndim |-> t[i]] BY <2>1
  <2>4. Ndim \in 1 .. Ndim /\ \A d \in 1 .. Ndim - 1 : d \in 1 .. Ndim /\ d # Ndim BY <1>1
  <2>5. t[Ndim] = 1 BY <2>2, <2>4
  <2>6. \A d \in 1 .. Ndim - 1 : t[d] = t[d + 1] * s[d + 1] BY <2>2, <2>4
  <2> QED BY <2>3, <2>5, <2>6
<1> HIDE DEF t
<1>6. \A d \in 1 .. Ndim : t[d] \in Nat
  <2> DEFINE P == {d \in 1 .. Ndim : t[d] \in Nat}
  <2>1. Ndim \in P BY <1>1, <1>5
  <2>2. \A d \in 1 .. Ndim - 1 : d + 1 \in P => d \in P
    <3> TAKE d \in 1 .. Ndim - 1
    <3>1. d \in 1 .. Ndim /\ d + 1 \in 1 .. Ndim /\ s[d + 1] \in Nat BY <1>1
    <3>2. t[d + 1] \in Nat => t[d + 1] * s[d + 1] \in Nat BY <3>1
    <3> QED BY <1>5, <3>1, <3>2
  <2> HIDE DEF P
  <2>3. 1 .. Ndim \subseteq P BY <1>1, <2>1, <2>2, CountingDown
  <2> QED BY <2>3 DEF P
<1>7. t \in [1 .. Ndim -> Nat] BY <1>5, <1>6
<1> QED BY <1>5, <1>7 DEF t

LEMMA ElementsAre ==
    ASSUME NEW s \in AnyShape
    PROVE  /\ Elements(s) \in [1 .. Ndim + 1 -> Nat] /\ Elements(s)[Ndim + 1] = 1
           /\ \A d \in 1 .. Ndim : /\ Elements(s)[d] = s[d] * Elements(s)[d + 1]
                                   /\ Elements(s)[d + 1] = Strides[s][d]
<1> DEFINE t == Strides[s]
           e == Elements(s)
<1>1. s \in [1 .. Ndim -> Nat] /\ Ndim \in Nat /\ Ndim >= 1 BY ShapeTyped, NdimAssumption
<1>2. t \in [1 .. Ndim -> Nat] /\ t[Ndim] = 1 /\ \A d \in 1 .. Ndim - 1 : t[d] = t[d + 1] * s[d + 1]
  BY StridesAre
<1>3. e = [d \in 1 .. Ndim + 1 |-> IF d = 1 THEN s[1] * t[1] ELSE t[d - 1]] BY DEF Elements
<1> HIDE DEF t, e
<1>4. \A d \in 1 .. Ndim : d + 1 \in 1 .. Ndim + 1 /\ d + 1 # 1 /\ (d + 1) - 1 = d /\ e[d + 1] = t[d]
  BY <1>1, <1>3
<1>5. e[Ndim + 1] = 1 BY <1>1, <1>2, <1>4
<1>6. e[1] = s[1] * t[1] BY <1>1, <1>3
<1>7. ASSUME NEW d \in 1 .. Ndim PROVE e[d] = s[d] * e[d + 1]
  <2>1. CASE d = 1 BY <1>4, <1>6, <2>1
  <2>2. CASE d # 1
    <3>1. d - 1 \in 1 .. Ndim - 1 /\ (d - 1) + 1 = d /\ d \in 1 .. Ndim + 1 BY <1>1, <2>2
    <3>2. e[d] = t[d - 1] BY <1>3, <2>2, <3>1
    <3>3. t[d - 1] = t[d] * s[d] BY <1>2, <3>1
    <3>4. t[d] \in Nat /\ s[d] \in Nat BY <1>1, <1>2
    <3> QED BY <1>4, <3>2, <3>3, <3>4
  <2> QED BY <2>1, <2>2
<1>8. e[1] \in Nat
  <2>1. s[1] \in Nat /\ t[1] \in Nat BY <1>1, <1>2
  <2> QED BY <1>6, <2>1
<1>9. \A d \in 1 .. Ndim + 1 : e[d] \in Nat
  <2> TAKE d \in 1 .. Ndim + 1
  <2>1. CASE d = 1 BY <1>8, <2>1
  <2>2. CASE d # 1
    <3>1. d - 1 \in 1 .. Ndim BY <1>1, <2>2
    <3>2. e[d] = t[d - 1] BY <1>3, <2>2
    <3> QED BY <1>2, <3>1, <3>2
  <2> QED BY <2>1, <2>2
<1>10. e \in [1 .. Ndim + 1 -> Nat] BY <1>3, <1>9
<1> QED BY <1>4, <1>5, <1>7, <1>10 DEF e, t

\* There is at least one element from any dimension on.
LEMMA ElementsThere ==
    ASSUME NEW s \in Shape
    PROVE  \A d \in 1 .. Ndim + 1 : Elements(s)[d] >= 1
<1> DEFINE e == Elements(s)
           P == {d \in 1 .. Ndim + 1 : e[d] >= 1}
<1>1. Ndim \in Nat /\ Ndim >= 1 /\ s \in AnyShape BY NdimAssumption DEF AnyShape
<1>2. /\ e \in [1 .. Ndim + 1 -> Nat] /\ e[Ndim + 1] = 1
      /\ \A d \in 1 .. Ndim : e[d] = s[d] * e[d + 1]
  BY <1>1, ElementsAre
<1>3. \A d \in 1 .. Ndim : s[d] \in Nat /\ s[d] # 0 BY ExtentsAssumption DEF Shape
<1> HIDE DEF e
<1>4. Ndim + 1 \in P BY <1>1, <1>2
<1>5. \A d \in 1 .. (Ndim + 1) - 1 : d + 1 \in P => d \in P
  <2> SUFFICES ASSUME NEW d \in 1 .. (Ndim + 1) - 1, e[d + 1] >= 1 PROVE d \in P OBVIOUS
  <2>1. d \in 1 .. Ndim /\ d \in 1 .. Ndim + 1 /\ d + 1 \in 1 .. Ndim + 1 BY <1>1
  <2>2. e[d] = s[d] * e[d + 1] /\ s[d] \in Nat /\ s[d] # 0 /\ e[d + 1] \in Nat BY <1>2, <1>3, <2>1
  <2>3. s[d] * e[d + 1] >= 1 BY <2>2
  <2> QED BY <2>1, <2>2, <2>3
<1> HIDE DEF P
<1>6. Ndim + 1 \in Nat BY <1>1
<1>7. 1 .. Ndim + 1 \subseteq P BY <1>4, <1>5, <1>6, CountingDown
<1> QED BY <1>7 DEF P, e

LEMMA FromIs ==
    ASSUME NEW s \in AnyShape, NEW i \in [1 .. Ndim -> Nat]
    PROVE  /\ From(s, i) \in [1 .. Ndim + 1 -> Nat] /\ Offset(s, i) = From(s, i)[1]
           /\ From(s, i)[Ndim + 1] = 0
           /\ \A d \in 1 .. Ndim : From(s, i)[d] = i[d] * Elements(s)[d + 1] + From(s, i)[d + 1]
<1> DEFINE t == Strides[s]
           F == [n \in 1 .. Ndim |-> [v \in Int |-> i[Ndim + 1 - n] * t[Ndim + 1 - n] + v]]
           Follows(from) == from = [d \in 1 .. Ndim + 1 |->
                                        IF d > Ndim THEN 0 ELSE i[d] * t[d] + from[d + 1]]
<1>1. Ndim \in Nat /\ Ndim >= 1 /\ t \in [1 .. Ndim -> Nat] /\ \A d \in 1 .. Ndim : Elements(s)[d + 1] = t[d]
  BY NdimAssumption, StridesAre, ElementsAre
<1>2. Offset(s, i) = (CHOOSE from : Follows(from))[1] /\ From(s, i) = CHOOSE from : Follows(from)
  BY DEF Offset, From
<1> HIDE DEF t
<1>3. PICK f \in [0 .. Ndim -> Int] : f[0] = 0 /\ \A n \in 1 .. Ndim : f[n] = F[n][f[n - 1]]
  <2>1. F \in [1 .. Ndim -> [Int -> Int]]
    <3>1. \A n \in 1 .. Ndim, v \in Int : i[Ndim + 1 - n] * t[Ndim + 1 - n] + v \in Int
      <4> TAKE n \in 1 .. Ndim, v \in Int
      <4>1. Ndim + 1 - n \in 1 .. Ndim BY <1>1
      <4>2. i[Ndim + 1 - n] \in Nat /\ t[Ndim + 1 - n] \in Nat BY <1>1, <4>1
      <4> QED BY <4>2
    <3> QED BY <1>1, <3>1
  <2>2. 0 \in Int OBVIOUS
  <2> HIDE DEF F
  <2> QED BY <1>1, <2>1, <2>2, Recursion
<1> DEFINE g == [d \in 1 .. Ndim + 1 |-> f[Ndim + 1 - d]]
<1>4. Follows(g)
  <2>1. ASSUME NEW d \in 1 .. Ndim + 1 PROVE g[d] = IF d > Ndim THEN 0 ELSE i[d] * t[d] + g[d + 1]
    <3>1. CASE d > Ndim
      <4>1. Ndim + 1 - d = 0 BY <1>1, <3>1
      <4> QED BY <1>3, <3>1, <4>1
    <3>2. CASE ~(d > Ndim)
      <4>1. Ndim + 1 - d \in 1 .. Ndim /\ d + 1 \in 1 .. Ndim + 1 /\ Ndim + 1 - (Ndim + 1 - d) = d
            /\ (Ndim + 1 - d) - 1 = Ndim + 1 - (d + 1)
        BY <1>1, <3>2
      <4>2. f[Ndim + 1 - (d + 1)] \in Int BY <1>1, <1>3, <4>1
      <4>3. f[Ndim + 1 - d] = i[d] * t[d] + f[Ndim + 1 - (d + 1)] BY <1>3, <4>1, <4>2
      <4> QED BY <3>2, <4>1, <4>3
    <3> QED BY <3>1, <3>2
  <2> QED BY <2>1
<1> DEFINE h == From(s, i)
<1>5. Follows(h)
  <2> HIDE DEF g, Follows
  <2> QED BY <1>2, <1>4
<1>6. h[1] = Offset(s, i) BY <1>2
<1> HIDE DEF h
<1>7. \A d \in 1 .. Ndim + 1 : h[d] = IF d > Ndim THEN 0 ELSE i[d] * t[d] + h[d + 1] BY <1>5
<1>8. h = [d \in 1 .. Ndim + 1 |-> h[d]] BY <1>5
<1>9. h[Ndim + 1] = 0 BY <1>1, <1>7
<1>10. \A d \in 1 .. Ndim : h[d] = i[d] * t[d] + h[d + 1] BY <1>1, <1>7
<1>11. \A d \in 1 .. Ndim + 1 : h[d] \in Nat
  <2> DEFINE P == {d \in 1 .. Ndim + 1 : h[d] \in Nat}
  <2>1. Ndim + 1 \in P BY <1>1, <1>9
  <2>2. \A d \in 1 .. (Ndim + 1) - 1 : d + 1 \in P => d \in P
    <3> TAKE d \in 1 .. (Ndim + 1) - 1
    <3>1. d \in 1 .. Ndim /\ d \in 1 .. Ndim + 1 BY <1>1
    <3>2. i[d] * t[d] \in Nat
      <4>1. i[d] \in Nat /\ t[d] \in Nat BY <1>1, <3>1
      <4> QED BY <4>1
    <3>3. h[d] = i[d] * t[d] + h[d + 1] BY <1>10, <3>1
    <3> QED BY <3>1, <3>2, <3>3
  <2> HIDE DEF P
  <2>3. Ndim + 1 \in Nat BY <1>1
  <2>4. 1 .. Ndim + 1 \subseteq P BY <2>1, <2>2, <2>3, CountingDown
  <2> QED BY <2>4 DEF P
<1>12. h \in [1 .. Ndim + 1 -> Nat] BY <1>8, <1>11
<1> QED BY <1>1, <1>6, <1>9, <1>10, <1>12 DEF h

\* What comes after a dimension is less than one step of it.
LEMMA FromBelow ==
    ASSUME NEW s \in AnyShape, NEW i \in Index(s)
    PROVE  \A d \in 1 .. Ndim + 1 : From(s, i)[d] \in 0 .. Elements(s)[d] - 1
<1> DEFINE e == Elements(s)
           f == From(s, i)
           P == {d \in 1 .. Ndim + 1 : f[d] < e[d]}
<1>1. /\ Ndim \in Nat /\ Ndim >= 1 /\ s \in [1 .. Ndim -> Nat]
      /\ i \in [1 .. Ndim -> Nat] /\ \A d \in 1 .. Ndim : i[d] < s[d]
  BY NdimAssumption, ShapeTyped, IndexTyped
<1>2. /\ e \in [1 .. Ndim + 1 -> Nat] /\ e[Ndim + 1] = 1
      /\ \A d \in 1 .. Ndim : e[d] = s[d] * e[d + 1]
  BY ElementsAre
<1>3. /\ f \in [1 .. Ndim + 1 -> Nat] /\ f[Ndim + 1] = 0
      /\ \A d \in 1 .. Ndim : f[d] = i[d] * e[d + 1] + f[d + 1]
  BY <1>1, FromIs
<1> HIDE DEF e, f
<1>4. Ndim + 1 \in P BY <1>1, <1>2, <1>3
<1>5. \A d \in 1 .. (Ndim + 1) - 1 : d + 1 \in P => d \in P
  <2> SUFFICES ASSUME NEW d \in 1 .. (Ndim + 1) - 1, f[d + 1] < e[d + 1] PROVE d \in P OBVIOUS
  <2>1. d \in 1 .. Ndim /\ d \in 1 .. Ndim + 1 /\ d + 1 \in 1 .. Ndim + 1 BY <1>1
  <2>2. PICK k \in Nat : s[d] = i[d] + 1 + k
    <3>1. s[d] - i[d] - 1 \in Nat /\ s[d] = i[d] + 1 + (s[d] - i[d] - 1) BY <1>1, <2>1
    <3> QED BY <3>1
  <2>3. i[d] \in Nat /\ e[d + 1] \in Nat /\ f[d + 1] \in Nat BY <1>1, <1>2, <1>3, <2>1
  <2>4. s[d] * e[d + 1] = i[d] * e[d + 1] + e[d + 1] + k * e[d + 1] BY <2>2, <2>3
  <2>5. i[d] * e[d + 1] \in Nat /\ k * e[d + 1] \in Nat BY <2>3
  <2>6. f[d] = i[d] * e[d + 1] + f[d + 1] /\ e[d] = s[d] * e[d + 1] BY <1>2, <1>3, <2>1
  <2>7. f[d] < e[d]
    <3> HIDE <1>1, <1>2, <1>3
    <3> QED BY <2>3, <2>4, <2>5, <2>6
  <2> QED BY <2>1, <2>7
<1> HIDE DEF P
<1>6. Ndim + 1 \in Nat BY <1>1
<1>7. 1 .. Ndim + 1 \subseteq P BY <1>4, <1>5, <1>6, CountingDown
<1>8. \A d \in 1 .. Ndim + 1 : f[d] \in 0 .. e[d] - 1
  <2> TAKE d \in 1 .. Ndim + 1
  <2>1. f[d] < e[d] /\ f[d] \in Nat /\ e[d] \in Nat BY <1>2, <1>3, <1>7 DEF P
  <2> QED BY <2>1
<1> QED BY <1>8 DEF e, f

\* It depends on the dimensions after it alone.
LEMMA FromLater ==
    ASSUME NEW s \in AnyShape, NEW i \in Index(s), NEW j \in Index(s), NEW d \in 1 .. Ndim + 1,
           \A c \in d .. Ndim : i[c] = j[c]
    PROVE  From(s, i)[d] = From(s, j)[d]
<1> DEFINE e == Elements(s)
           f == From(s, i)
           g == From(s, j)
           P == {c \in 1 .. Ndim + 1 : c >= d => f[c] = g[c]}
<1>1. Ndim \in Nat /\ Ndim >= 1 /\ i \in [1 .. Ndim -> Nat] /\ j \in [1 .. Ndim -> Nat]
  BY NdimAssumption, IndexTyped
<1>2. f[Ndim + 1] = 0 /\ \A c \in 1 .. Ndim : f[c] = i[c] * e[c + 1] + f[c + 1] BY <1>1, FromIs
<1>3. g[Ndim + 1] = 0 /\ \A c \in 1 .. Ndim : g[c] = j[c] * e[c + 1] + g[c + 1] BY <1>1, FromIs
<1> HIDE DEF e, f, g
<1>4. Ndim + 1 \in P BY <1>1, <1>2, <1>3
<1>5. \A c \in 1 .. (Ndim + 1) - 1 : c + 1 \in P => c \in P
  <2> SUFFICES ASSUME NEW c \in 1 .. (Ndim + 1) - 1, c + 1 \in P, c >= d PROVE f[c] = g[c]
    BY <1>1
  <2>1. c \in 1 .. Ndim /\ c \in d .. Ndim /\ c + 1 >= d BY <1>1
  <2>2. f[c + 1] = g[c + 1] BY <2>1
  <2> QED BY <1>2, <1>3, <2>1, <2>2
<1> HIDE DEF P
<1>6. Ndim + 1 \in Nat BY <1>1
<1>7. 1 .. Ndim + 1 \subseteq P BY <1>4, <1>5, <1>6, CountingDown
<1>8. d \in P /\ d >= d BY <1>1, <1>7
<1> QED BY <1>8 DEF P, f, g

\* No two indexes have one offset.
LEMMA OffsetOnce ==
    ASSUME NEW s \in AnyShape, NEW i \in Index(s), NEW j \in Index(s), Offset(s, i) = Offset(s, j)
    PROVE  i = j
<1> DEFINE e == Elements(s)
           f == From(s, i)
           g == From(s, j)
           P == {n \in 0 .. Ndim : f[n + 1] = g[n + 1] /\ \A d \in 1 .. n : i[d] = j[d]}
<1>1. Ndim \in Nat /\ Ndim >= 1 /\ i \in [1 .. Ndim -> Nat] /\ j \in [1 .. Ndim -> Nat]
  BY NdimAssumption, IndexTyped
<1>2. e \in [1 .. Ndim + 1 -> Nat] BY ElementsAre
<1>3. f[1] = g[1] /\ \A d \in 1 .. Ndim : f[d] = i[d] * e[d + 1] + f[d + 1]
  <2>1. Offset(s, i) = f[1] /\ \A d \in 1 .. Ndim : f[d] = i[d] * e[d + 1] + f[d + 1] BY <1>1, FromIs
  <2>2. Offset(s, j) = g[1] BY <1>1, FromIs
  <2> HIDE DEF e, f, g
  <2> QED BY <2>1, <2>2
<1>4. \A d \in 1 .. Ndim : g[d] = j[d] * e[d + 1] + g[d + 1] BY <1>1, FromIs
<1>5. \A d \in 1 .. Ndim + 1 : f[d] \in 0 .. e[d] - 1 /\ g[d] \in 0 .. e[d] - 1 BY FromBelow
<1> HIDE DEF e, f, g
<1>6. 0 \in P BY <1>1, <1>3
<1>7. ASSUME NEW n \in 1 .. Ndim, n - 1 \in P PROVE n \in P
  <2>1. n + 1 \in 1 .. Ndim + 1 /\ n \in 0 .. Ndim /\ (n - 1) + 1 = n BY <1>1
  <2>2. f[n] = g[n] /\ \A d \in 1 .. n - 1 : i[d] = j[d] BY <1>7, <2>1
  <2>3. i[n] * e[n + 1] + f[n + 1] = j[n] * e[n + 1] + g[n + 1] BY <1>3, <1>4, <2>2
  <2>4. /\ i[n] \in Nat /\ j[n] \in Nat /\ e[n + 1] \in Nat
        /\ f[n + 1] \in 0 .. e[n + 1] - 1 /\ g[n + 1] \in 0 .. e[n + 1] - 1
    BY <1>1, <1>2, <1>5, <2>1
  <2>5. i[n] = j[n] /\ f[n + 1] = g[n + 1]
    <3> DEFINE k == e[n + 1]
               a == i[n]
               b == j[n]
               q == f[n + 1]
               r == g[n + 1]
    <3>1. /\ k \in Nat /\ a \in Nat /\ b \in Nat /\ q \in 0 .. k - 1 /\ r \in 0 .. k - 1
          /\ a * k + q = b * k + r
      BY <2>3, <2>4
    <3> HIDE DEF k, a, b, q, r
    <3>2. a = b /\ q = r BY <3>1, DivisionUnique
    <3> QED BY <3>2 DEF a, b, q, r
  <2>6. \A d \in 1 .. n : i[d] = j[d]
    <3> TAKE d \in 1 .. n
    <3>1. d = n \/ d \in 1 .. n - 1 BY <2>1
    <3> QED BY <2>2, <2>5, <3>1
  <2> QED BY <2>1, <2>5, <2>6
<1> HIDE DEF P
<1>8. 0 .. Ndim \subseteq P BY <1>1, <1>6, <1>7, CountingUp
<1>9. Ndim \in P BY <1>1, <1>8
<1> QED BY <1>1, <1>9 DEF P

\* Every number below the number of elements is the offset of an index.
LEMMA OffsetOnto ==
    ASSUME NEW s \in AnyShape, NEW v \in 0 .. Elements(s)[1] - 1
    PROVE  \E i \in Index(s) : Offset(s, i) = v
<1> DEFINE e == Elements(s)
           P == {d \in 1 .. Ndim + 1 : \A w \in 0 .. e[d] - 1 : \E i \in Index(s) : From(s, i)[d] = w}
<1>1. Ndim \in Nat /\ Ndim >= 1 /\ s \in [1 .. Ndim -> Nat] BY NdimAssumption, ShapeTyped
<1>2. /\ e \in [1 .. Ndim + 1 -> Nat] /\ e[Ndim + 1] = 1
      /\ \A d \in 1 .. Ndim : e[d] = s[d] * e[d + 1]
  BY ElementsAre
<1>3. Index(s) = {i \in [1 .. Ndim -> Nat] : \A d \in 1 .. Ndim : i[d] < s[d]} BY IndexTyped
<1>4. \A i \in Index(s) : /\ Offset(s, i) = From(s, i)[1] /\ From(s, i)[Ndim + 1] = 0
                          /\ \A d \in 1 .. Ndim : From(s, i)[d] = i[d] * e[d + 1] + From(s, i)[d + 1]
  BY <1>3, FromIs
<1>5. v \in 0 .. e[1] - 1 OBVIOUS
<1>6. s # NoShape
  <2> SUFFICES ASSUME s = NoShape PROVE FALSE OBVIOUS
  <2> HIDE DEF e
  <2>1. 1 \in 1 .. Ndim /\ 1 + 1 \in 1 .. Ndim + 1 BY <1>1
  <2>2. s[1] = 0 /\ e[1] = s[1] * e[1 + 1] /\ e[1 + 1] \in Nat BY <1>2, <2>1 DEF NoShape
  <2>3. e[1] = 0 BY <2>2
  <2>4. v \in 0 .. e[1] - 1 BY DEF e
  <2> QED BY <2>3, <2>4
<1> HIDE DEF e
<1>7. \A d \in 1 .. Ndim : s[d] >= 1
  <2>1. s \in [1 .. Ndim -> Extents] BY <1>6 DEF AnyShape, Shape
  <2>2. \A x \in Extents : x \in Nat /\ x # 0 BY ExtentsAssumption
  <2> QED BY <2>1, <2>2
<1>8. Ndim + 1 \in P
  <2>1. [d \in 1 .. Ndim |-> 0] \in Index(s) BY <1>1, <1>3, <1>7
  <2>2. \A w \in 0 .. e[Ndim + 1] - 1 : w = 0 BY <1>2
  <2>3. Ndim + 1 \in 1 .. Ndim + 1 BY <1>1
  <2> QED BY <1>4, <2>1, <2>2, <2>3
<1>9. ASSUME NEW d \in 1 .. (Ndim + 1) - 1, d + 1 \in P PROVE d \in P
  <2>1. d \in 1 .. Ndim /\ d \in 1 .. Ndim + 1 /\ d + 1 \in 1 .. Ndim + 1 BY <1>1
  <2>2. ASSUME NEW w \in 0 .. e[d] - 1 PROVE \E i \in Index(s) : From(s, i)[d] = w
    <3>1. e[d] = s[d] * e[d + 1] /\ s[d] \in Nat /\ e[d + 1] \in Nat BY <1>1, <1>2, <2>1
    <3>2. e[d + 1] # 0 /\ w \in Nat
      <4>1. e[d] # 0 /\ e[d] \in Nat BY <1>2, <2>1
      <4>2. e[d + 1] = 0 => s[d] * e[d + 1] = 0 BY <3>1
      <4> QED BY <3>1, <4>1, <4>2
    <3>3. PICK a \in Nat, r \in 0 .. e[d + 1] - 1 : w = a * e[d + 1] + r
      <4> DEFINE n == e[d + 1]
      <4>1. n \in Nat \ {0} /\ w \in Nat BY <3>1, <3>2
      <4> HIDE DEF n
      <4>2. \E a \in Nat, r \in 0 .. n - 1 : w = a * n + r BY <4>1, Division
      <4> QED BY <4>2 DEF n
    <3>4. a < s[d]
      <4> SUFFICES ASSUME a >= s[d] PROVE FALSE BY <3>1
      <4>1. PICK k \in Nat : a = s[d] + k
        <5>1. a - s[d] \in Nat /\ a = s[d] + (a - s[d]) BY <3>1
        <5> QED BY <5>1
      <4>2. a * e[d + 1] = s[d] * e[d + 1] + k * e[d + 1] BY <3>1, <4>1
      <4>3. k * e[d + 1] \in Nat BY <3>1
      <4>4. a * e[d + 1] >= e[d]
        <5>1. e[d] \in Nat BY <1>2, <2>1
        <5> QED BY <3>1, <4>2, <4>3, <5>1
      <4>5. a * e[d + 1] \in Nat /\ w < e[d] /\ e[d] \in Nat BY <1>2, <2>1, <3>1
      <4> QED BY <3>3, <4>4, <4>5
    <3>5. PICK i \in Index(s) : From(s, i)[d + 1] = r BY <1>9, <3>3
    <3> DEFINE j == [i EXCEPT ![d] = a]
    <3>6. j \in Index(s) /\ j[d] = a /\ \A c \in (d + 1) .. Ndim : i[c] = j[c]
      <4>1. i \in [1 .. Ndim -> Nat] /\ \A c \in 1 .. Ndim : i[c] < s[c] BY <1>3
      <4>2. j \in [1 .. Ndim -> Nat] /\ j[d] = a /\ \A c \in 1 .. Ndim : c # d => j[c] = i[c]
        BY <2>1, <4>1
      <4>3. \A c \in 1 .. Ndim : j[c] < s[c] BY <3>4, <4>1, <4>2
      <4>4. \A c \in (d + 1) .. Ndim : c \in 1 .. Ndim /\ c # d BY <2>1
      <4> HIDE DEF j
      <4> QED BY <1>3, <4>2, <4>3, <4>4
    <3> HIDE DEF j
    <3>7. From(s, j)[d + 1] = r BY <2>1, <3>5, <3>6, FromLater
    <3>8. From(s, j)[d] = a * e[d + 1] + r BY <1>4, <2>1, <3>6, <3>7
    <3> QED BY <3>3, <3>6, <3>8
  <2> QED BY <2>1, <2>2
<1>10. 1 \in P
  <2> HIDE DEF P
  <2>1. Ndim + 1 \in Nat /\ 1 \in 1 .. Ndim + 1 BY <1>1
  <2>2. 1 .. Ndim + 1 \subseteq P BY <1>8, <1>9, <2>1, CountingDown
  <2> QED BY <2>1, <2>2
<1>11. PICK i \in Index(s) : From(s, i)[1] = v BY <1>5, <1>10
<1> QED BY <1>4, <1>11

\* 2^n is a number: there are that many sets of n numbers.
LEMMA PowerTyped == \A n \in Nat : 2^n \in Nat /\ 2^n >= 1
<1> TAKE n \in Nat
<1>1. IsFiniteSet(1 .. n) /\ Cardinality(1 .. n) = n BY FS_Interval
<1>2. IsFiniteSet(SUBSET (1 .. n)) /\ Cardinality(SUBSET (1 .. n)) = 2^n BY <1>1, FS_SUBSET
<1>3. Cardinality(SUBSET (1 .. n)) # 0 BY <1>2, FS_EmptySet
<1> QED BY <1>2, <1>3, FS_CardinalityType

\* Numbers that fit are stored as they are, and what is stored fits.
LEMMA StoredAsIs ==
    ASSUME NEW n \in Int
    PROVE  /\ ToInt(n) \in Int /\ ToInt(n) <= 2^(IntBits - 1) - 1
           /\ n \in 0 .. 2^(IntBits - 1) - 1 => ToInt(n) = n
<1> DEFINE half == 2^(IntBits - 1)
<1>1. half \in Nat /\ half >= 1
  <2>1. IntBits - 1 \in Nat BY WidthAssumption
  <2> QED BY <2>1, PowerTyped
<1>2. ToInt(n) = ((n + half) % (2 * half)) - half BY DEF ToInt
<1> HIDE DEF half
<1>3. (n + half) % (2 * half) \in Int BY <1>1
<1>4. n \in 0 .. half - 1 => (n + half) % (2 * half) = n + half BY <1>1
<1>5. n \in 0 .. half - 1 => ToInt(n) = n BY <1>1, <1>2, <1>4
<1>6. ToInt(n) \in Int /\ ToInt(n) <= half - 1
  <2>1. (n + half) % (2 * half) <= 2 * half - 1 BY <1>1
  <2> QED BY <1>1, <1>2, <1>3, <2>1
<1> QED BY <1>5, <1>6 DEF half

\* SizeOf multiplies one extent after the other, each product stored in an int.
LEMMA SizeProducts ==
    ASSUME NEW s \in AnyShape
    PROVE  \E p \in [0 .. Ndim -> Int] :
              /\ SizeOf[s] = p[Ndim] /\ p[0] = 1
              /\ \A d \in 1 .. Ndim : p[d] = ToInt(p[d - 1] * s[d])
<1> DEFINE F == [n \in 1 .. Ndim |-> [v \in Int |-> ToInt(v * s[n])]]
           Follows(product) == product = [d \in 0 .. Ndim |->
                                              IF d = 0 THEN 1 ELSE ToInt(product[d - 1] * s[d])]
           p == CHOOSE product : Follows(product)
<1>1. Ndim \in Nat /\ Ndim >= 1 /\ s \in [1 .. Ndim -> Nat] BY NdimAssumption, ShapeTyped
<1>2. \A v \in Int : ToInt(v) \in Int BY StoredAsIs
<1>3. SizeOf[s] = p[Ndim] BY DEF SizeOf
<1>4. F \in [1 .. Ndim -> [Int -> Int]]
  <2>1. \A n \in 1 .. Ndim, v \in Int : ToInt(v * s[n]) \in Int BY <1>1, <1>2
  <2> QED BY <2>1
<1>5. PICK f \in [0 .. Ndim -> Int] : f[0] = 1 /\ \A n \in 1 .. Ndim : f[n] = F[n][f[n - 1]]
  <2>1. 1 \in Int OBVIOUS
  <2> HIDE DEF F
  <2> QED BY <1>1, <1>4, <2>1, Recursion
<1>6. \A d \in 1 .. Ndim : f[d] = ToInt(f[d - 1] * s[d])
  <2> TAKE d \in 1 .. Ndim
  <2>1. d - 1 \in 0 .. Ndim BY <1>1
  <2>2. f[d - 1] \in Int BY <1>5, <2>1
  <2> QED BY <1>5, <2>2
<1>7. \A q : Follows(q) => q = f
  <2> SUFFICES ASSUME NEW q, Follows(q) PROVE q = f OBVIOUS
  <2>1. q = [d \in 0 .. Ndim |-> q[d]] OBVIOUS
  <2>2. q[0] = 1 /\ \A d \in 1 .. Ndim : q[d] = ToInt(q[d - 1] * s[d]) BY <1>1
  <2> DEFINE P == {n \in 0 .. Ndim : q[n] = f[n]}
  <2>3. 0 \in P BY <1>1, <1>5, <2>2
  <2>4. \A n \in 1 .. Ndim : n - 1 \in P => n \in P BY <1>1, <1>6, <2>2
  <2> HIDE DEF P
  <2>5. 0 .. Ndim \subseteq P BY <1>1, <2>3, <2>4, CountingUp
  <2>6. \A n \in 0 .. Ndim : q[n] = f[n] BY <2>5 DEF P
  <2> QED BY <1>5, <2>1, <2>6
<1>8. Follows(f) BY <1>1, <1>5, <1>6
<1> HIDE DEF Follows
<1>9. p = f BY <1>7, <1>8
<1> QED BY <1>3, <1>5, <1>6, <1>9

\* No size is more than an int can hold.
LEMMA SizeBelow == \A s \in AnyShape : SizeOf[s] \in Int /\ SizeOf[s] <= 2^(IntBits - 1) - 1
<1> TAKE s \in AnyShape
<1>1. PICK p \in [0 .. Ndim -> Int] :
        /\ SizeOf[s] = p[Ndim] /\ p[0] = 1
        /\ \A d \in 1 .. Ndim : p[d] = ToInt(p[d - 1] * s[d])
  BY SizeProducts
<1>2. Ndim \in 1 .. Ndim /\ Ndim - 1 \in 0 .. Ndim BY NdimAssumption
<1>3. s[Ndim] \in Nat BY <1>2, ShapeTyped
<1>4. p[Ndim - 1] * s[Ndim] \in Int BY <1>1, <1>2, <1>3
<1> QED BY <1>1, <1>2, <1>4, StoredAsIs

\* While the number of elements fits an int, it is what SizeOf computes.
LEMMA SizeIs ==
    ASSUME NEW s \in AnyShape, Elements(s)[1] \in 0 .. 2^(IntBits - 1) - 1
    PROVE  SizeOf[s] = Elements(s)[1]
<1> DEFINE e == Elements(s)
           most == 2^(IntBits - 1) - 1
<1>1. Ndim \in Nat /\ Ndim >= 1 /\ s \in [1 .. Ndim -> Nat] BY NdimAssumption, ShapeTyped
<1>2. /\ e \in [1 .. Ndim + 1 -> Nat] /\ e[Ndim + 1] = 1
      /\ \A d \in 1 .. Ndim : e[d] = s[d] * e[d + 1]
  BY ElementsAre
<1>3. PICK p \in [0 .. Ndim -> Int] :
        /\ SizeOf[s] = p[Ndim] /\ p[0] = 1
        /\ \A d \in 1 .. Ndim : p[d] = ToInt(p[d - 1] * s[d])
  BY SizeProducts
<1>4. e[1] \in 0 .. most OBVIOUS
<1>5. \A v \in Int : ToInt(v) \in Int /\ (v \in 0 .. most => ToInt(v) = v)
  BY StoredAsIs
<1>6. most \in Int
  <2>1. IntBits - 1 \in Nat BY WidthAssumption
  <2>2. 2^(IntBits - 1) \in Nat BY <2>1, PowerTyped
  <2> QED BY <2>2
<1> HIDE DEF e, most
<1> DEFINE P == {n \in 0 .. Ndim : p[n] \in Nat /\ p[n] * e[n + 1] = e[1]}
<1>7. 0 \in P
  <2>1. p[0] = 1 /\ 0 + 1 \in 1 .. Ndim + 1 /\ 0 \in 0 .. Ndim BY <1>1, <1>3
  <2>2. e[0 + 1] \in Nat /\ 0 + 1 = 1 BY <1>2, <2>1
  <2> QED BY <2>1, <2>2
<1>8. ASSUME NEW n \in 1 .. Ndim, n - 1 \in P PROVE n \in P
  <2>1. /\ n \in 0 .. Ndim /\ n # 0 /\ (n - 1) + 1 = n /\ n + 1 \in 1 .. Ndim + 1
        /\ p[n - 1] \in Nat /\ p[n - 1] * e[n] = e[1]
    BY <1>1, <1>8
  <2>2. e[n] = s[n] * e[n + 1] /\ s[n] \in Nat /\ e[n + 1] \in Nat BY <1>1, <1>2, <2>1
  <2> DEFINE q == p[n - 1] * s[n]
  <2>3. q \in Nat /\ q * e[n + 1] = e[1]
    <3>1. p[n - 1] * (s[n] * e[n + 1]) = (p[n - 1] * s[n]) * e[n + 1] BY <2>1, <2>2
    <3> QED BY <2>1, <2>2, <3>1
  <2>4. p[n] = ToInt(q) BY <1>3, <2>1
  <2>5. q \in 0 .. most
    <3>1. CASE s[n] = 0
      <4>1. q = 0 BY <2>1, <3>1
      <4> QED BY <1>4, <1>6, <4>1
    <3>2. CASE s[n] # 0
      <4>1. e[n + 1] >= 1
        <5>1. s \in Shape
          <6>1. NoShape[n] = 0 BY DEF NoShape
          <6> QED BY <3>2, <6>1 DEF AnyShape
        <5> QED BY <2>1, <5>1, ElementsThere DEF e
      <4> HIDE DEF q
      <4>2. q <= q * e[n + 1]
        <5>1. PICK k \in Nat : e[n + 1] = 1 + k
          <6>1. e[n + 1] - 1 \in Nat /\ e[n + 1] = 1 + (e[n + 1] - 1) BY <2>2, <4>1
          <6> QED BY <6>1
        <5>2. q * e[n + 1] = q + q * k /\ q * k \in Nat BY <2>3, <5>1
        <5> QED BY <2>3, <5>2
      <4> QED BY <1>4, <1>6, <2>3, <4>2
    <3> QED BY <3>1, <3>2
  <2> HIDE DEF q
  <2>6. p[n] = q BY <1>5, <2>3, <2>4, <2>5
  <2> QED BY <2>1, <2>3, <2>6
<1>9. Ndim \in P
  <2> HIDE DEF P
  <2>1. 0 .. Ndim \subseteq P BY <1>1, <1>7, <1>8, CountingUp
  <2> QED BY <1>1, <2>1
<1>10. p[Ndim] = e[1]
  <2>1. p[Ndim] \in Nat /\ p[Ndim] * e[Ndim + 1] = e[1] BY <1>9
  <2> QED BY <1>2, <2>1
<1> QED BY <1>3, <1>10 DEF e

\* There are as many indexes as elements, and their offsets are the elements.
THEOREM LayoutExact ==
    ASSUME NEW s \in AnyShape
    PROVE  /\ Offsets[s] = 0 .. Elements(s)[1] - 1
           /\ Cardinality(Index(s)) = Elements(s)[1]
<1> DEFINE n == Elements(s)[1]
           f == [i \in Index(s) |-> Offset(s, i)]
<1>1. n \in Nat
  <2>1. 1 \in 1 .. Ndim + 1 BY NdimAssumption
  <2> QED BY <2>1, ElementsAre
<1>2. \A i \in Index(s) : Offset(s, i) \in 0 .. n - 1
  <2> TAKE i \in Index(s)
  <2>1. i \in [1 .. Ndim -> Nat] BY IndexTyped
  <2>2. Offset(s, i) = From(s, i)[1] BY <2>1, FromIs
  <2>3. 1 \in 1 .. Ndim + 1 BY NdimAssumption
  <2> QED BY <2>2, <2>3, FromBelow
<1>3. \A v \in 0 .. n - 1 : \E i \in Index(s) : Offset(s, i) = v BY OffsetOnto
<1>4. \A i, j \in Index(s) : Offset(s, i) = Offset(s, j) => i = j BY OffsetOnce
<1>5. Offsets[s] = {Offset(s, i) : i \in Index(s)} BY DEF Offsets
<1> HIDE DEF n
<1>6. Offsets[s] = 0 .. n - 1 BY <1>2, <1>3, <1>5
<1>7. f \in Injection(Index(s), 0 .. n - 1) /\ f \in Surjection(Index(s), 0 .. n - 1)
  <2>1. f \in [Index(s) -> 0 .. n - 1] BY <1>2
  <2> QED BY <1>3, <1>4, <2>1 DEF Injection, Surjection, IsInjective
<1>8. Cardinality(Index(s)) = Cardinality(0 .. n - 1)
  <2> HIDE DEF f
  <2>1. IsFiniteSet(0 .. n - 1) BY <1>1, FS_Interval
  <2> QED BY <1>7, <2>1, FS_Injection
<1>9. Cardinality(0 .. n - 1) = n
  <2>1. 0 \in Int /\ n - 1 \in Int BY <1>1
  <2>2. Cardinality(0 .. n - 1) = IF 0 > n - 1 THEN 0 ELSE (n - 1) - 0 + 1 BY <2>1, FS_Interval
  <2> QED BY <1>1, <2>2
<1> QED BY <1>6, <1>8, <1>9 DEF n

\* An image whose elements an int can count has the memory of its shape, and
\* any other has less.
LEMMA SizeOrLess ==
    ASSUME NEW s \in AnyShape
    PROVE  /\ s \in Fitting => SizeOf[s] = Count[s] /\ Offsets[s] = 0 .. SizeOf[s] - 1
           /\ s \notin Fitting => SizeOf[s] < Count[s]
<1> DEFINE most == 2^(IntBits - 1) - 1
<1>1. Offsets[s] = 0 .. Elements(s)[1] - 1 /\ Count[s] = Elements(s)[1]
  BY LayoutExact DEF Count
<1>2. Count[s] \in Nat
  <2>1. 1 \in 1 .. Ndim + 1 BY NdimAssumption
  <2> QED BY <1>1, <2>1, ElementsAre
<1>3. s \in Fitting <=> Count[s] \in 0 .. most BY DEF Fitting
<1>4. Count[s] \in 0 .. most => SizeOf[s] = Count[s] BY <1>1, SizeIs
<1>5. SizeOf[s] \in Int /\ SizeOf[s] <= most BY SizeBelow
<1>6. most \in Int
  <2>1. IntBits - 1 \in Nat BY WidthAssumption
  <2>2. 2^(IntBits - 1) \in Nat BY <2>1, PowerTyped
  <2> QED BY <2>2
<1> HIDE DEF most
<1>7. s \in Fitting => Offsets[s] = 0 .. SizeOf[s] - 1 BY <1>1, <1>3, <1>4
<1> QED BY <1>2, <1>3, <1>4, <1>5, <1>6, <1>7

\* For every number of dimensions and every extent: while an int can count the
\* elements, data_[...] of operator() reaches the memory of the image and all of
\* it; an image with more elements has less memory than that, and still its
\* loops over size_ elements stay inside.
THEOREM ElementsInBounds == Spec => []InBounds
<1>1. IInv => InBounds
  <2> SUFFICES ASSUME IInv, Sane, NEW o \in Good, data[o] # Null
               PROVE  /\ mem[data[o]].size = SizeOf[shape[o]]
                      /\ shape[o] \in Fitting =>
                            /\ mem[data[o]].size = Count[shape[o]]
                            /\ Offsets[shape[o]] = 0 .. mem[data[o]].size - 1
                      /\ shape[o] \notin Fitting => mem[data[o]].size < Count[shape[o]]
    BY DEF InBounds
  <2>1. mem[data[o]].size = SizeOf[shape[o]] BY DEF IInv, Sized
  <2>2. shape[o] \in AnyShape BY DEF IInv, TypeOK, Good
  <2> QED BY <2>1, <2>2, SizeOrLess
<1> QED BY <1>1, Invariance, PTL
-----------------------------------------------------------------------------
(***************************************************************************)
(* Images are values.                                                      *)
(***************************************************************************)
\* The value of an image with this shape and content.
ImageOf(s, v) == IF s = NoShape THEN V!Empty ELSE V!Image(s, v)

\* AsValues, object by object.
LEMMA ValueOf ==
    /\ DOMAIN AsValues = Objects /\ AsValues = [o \in Objects |-> AsValues[o]]
    /\ \A o \in Objects :
          /\ o \notin alive => AsValues[o] = V!Absent
          /\ o \in alive /\ o \in lost => AsValues[o] = V!Lost
          /\ o \in Good => AsValues[o] = ImageOf(shape[o], Content(data[o], shape[o]))
BY DEF AsValues, Good, ImageOf, V!Absent, V!Lost, V!Empty, V!Image

LEMMA ValueAfter ==
    /\ DOMAIN AsValues' = Objects /\ AsValues' = [o \in Objects |-> AsValues'[o]]
    /\ \A o \in Objects :
          /\ o \notin alive' => AsValues'[o] = V!Absent
          /\ o \in alive' /\ o \in lost' => AsValues'[o] = V!Lost
          /\ o \in Good' => AsValues'[o] = ImageOf(shape'[o], Content(data[o], shape[o])')
BY DEF AsValues, Good, ImageOf, V!Absent, V!Lost, V!Empty, V!Image

\* The four states differ.
LEMMA ValuesDiffer ==
    /\ V!Absent # V!Lost /\ V!Absent # V!Empty /\ V!Lost # V!Empty
    /\ \A s, v : /\ V!Image(s, v) # V!Absent /\ V!Image(s, v) # V!Lost /\ V!Image(s, v) # V!Empty
                 /\ V!IsImage(V!Image(s, v)) /\ V!Image(s, v).shape = s /\ V!Image(s, v).value = v
    /\ \A s, v : V!Usable(ImageOf(s, v)) /\ ImageOf(s, v) # V!Absent /\ ImageOf(s, v) # V!Lost
BY DEF V!Absent, V!Lost, V!Empty, V!Image, V!IsImage, V!Usable, ImageOf

\* Where nothing of an object changes, its value does not.
LEMMA SameValue ==
    ASSUME NEW x \in Objects, x \in alive' <=> x \in alive, x \in lost' <=> x \in lost,
           shape'[x] = shape[x], data'[x] = data[x],
           x \in Good /\ data[x] # Null => mem'[data[x]] = mem[data[x]]
    PROVE  AsValues'[x] = AsValues[x]
<1>1. CASE x \notin alive BY <1>1, ValueOf, ValueAfter
<1>2. CASE x \in alive /\ x \in lost BY <1>2, ValueOf, ValueAfter
<1>3. CASE x \in Good
  <2>1. Content(data[x], shape[x])' = Content(data[x], shape[x]) BY <1>3 DEF Content
  <2>2. x \in Good' BY <1>3 DEF Good
  <2> QED BY <1>3, <2>1, <2>2, ValueOf, ValueAfter
<1> QED BY <1>1, <1>2, <1>3 DEF Good

\* The values of all objects but o, or but o and p, stay.
LEMMA OneValue ==
    ASSUME NEW o \in Objects, \A x \in Objects \ {o} : AsValues'[x] = AsValues[x]
    PROVE  AsValues' = [AsValues EXCEPT ![o] = AsValues'[o]]
BY ValueOf, ValueAfter

LEMMA TwoValues ==
    ASSUME NEW o \in Objects, NEW p \in Objects, o # p,
           \A x \in Objects \ {o, p} : AsValues'[x] = AsValues[x]
    PROVE  AsValues' = [AsValues EXCEPT ![o] = AsValues'[o], ![p] = AsValues'[p]]
<1> DEFINE i == AsValues
           j == AsValues'
<1>1. /\ DOMAIN i = Objects /\ i = [x \in Objects |-> i[x]]
      /\ DOMAIN j = Objects /\ j = [x \in Objects |-> j[x]]
  BY ValueOf, ValueAfter
<1>2. \A x \in Objects \ {o, p} : j[x] = i[x] OBVIOUS
<1> HIDE DEF i, j
<1>3. \A x \in Objects : j[x] = [i EXCEPT ![o] = j[o], ![p] = j[p]][x] BY <1>1, <1>2
<1>4. j = [i EXCEPT ![o] = j[o], ![p] = j[p]] BY <1>1, <1>3
<1> QED BY <1>4 DEF i, j

\* The memory of every image but o is untouched.
LEMMA MemoryApart ==
    ASSUME IInv, Sane, NEW o \in Objects, NEW old \in Block \cup {Null}, NEW new \in Block \cup {Null},
           NEW n, NEW v \in Value, Reallocate(old, new, n, v),
           old = Null \/ (o \in Good /\ old = data[o]),
           NEW x \in Good, x # o, data[x] # Null
    PROVE  mem'[data[x]] = mem[data[x]]
<1>1. TypeOK /\ MemTyped /\ Null \notin Block BY NullAssumption DEF IInv
<1>2. data[x] \in heap /\ (o \in Good => data[x] # data[o]) BY DEF IInv, OneOwner
<1>3. data[x] \in Block \ {old, new} BY <1>1, <1>2, Reallocating DEF TypeOK
<1> QED BY <1>1, <1>3, Reallocating

\* A new image has the value it is made of.
LEMMA EntersValue ==
    ASSUME IInv, Sane', NEW o \in Objects, NEW s \in AnyShape, NEW b \in Block, NEW v \in Value,
           Begins(o, s, b), New(b, SizeOf[s], v)
    PROVE  /\ Sane /\ AsValues[o] = V!Absent
           /\ AsValues'[o] = ImageOf(s, IF SizeOf[s] = 0 THEN 0 ELSE v)
           /\ AsValues' = [AsValues EXCEPT ![o] = AsValues'[o]]
<1>1. /\ TypeOK /\ MemTyped /\ Null \notin Block /\ Null \in Block \cup {Null} /\ b \in Block \cup {Null}
  BY NullAssumption DEF IInv
<1>2. /\ o \notin alive /\ o \notin lost /\ alive' = alive \cup {o} /\ lost' = lost
      /\ shape'[o] = s /\ data'[o] = b
      /\ \A x \in Objects \ {o} : shape'[x] = shape[x] /\ data'[x] = data[x]
  BY <1>1 DEF Begins, Fresh, TypeOK
<1>3. Reallocate(Null, b, SizeOf[s], v) BY DEF New
<1>4. Sane /\ o \in Good' BY <1>2 DEF Sane, Good
<1>5. \A x \in Objects \ {o} : AsValues'[x] = AsValues[x]
  <2> TAKE x \in Objects \ {o}
  <2>1. x \in Good /\ data[x] # Null => mem'[data[x]] = mem[data[x]] BY <1>1, <1>3, <1>4, MemoryApart
  <2> QED BY <1>2, <2>1, SameValue
<1>6. Content(data[o], shape[o])' = IF SizeOf[s] = 0 THEN 0 ELSE v
  <2>1. mem'[b].value = v BY <1>1, <1>3, Reallocating
  <2> QED BY <1>1, <1>2, <2>1 DEF Content
<1> QED BY <1>2, <1>4, <1>5, <1>6, OneValue, ValueOf, ValueAfter

\* What belonged to p is the value of o.
LEMMA PassesValue ==
    ASSUME IInv, Sane', NEW o \in Objects, NEW p \in Good, o # p,
           o \in Good \/ (o \notin alive /\ o \notin lost),
           alive' = alive \cup {o}, lost' = lost,
           shape' = Reset([shape EXCEPT ![o] = shape[p]], p, NoShape),
           data' = Reset([data EXCEPT ![o] = data[p]], p, Null),
           \/ o \in Good /\ Delete(data[o])
           \/ o \notin alive /\ UNCHANGED <<heapVars, seeing>>
    PROVE  V!Move(AsValues, AsValues', o, p)
<1>1. /\ TypeOK /\ MemTyped /\ Null \notin Block /\ p \in Objects /\ p \in alive /\ p \notin lost
      /\ \A x \in Objects : data[x] \in Block \cup {Null}
  BY NullAssumption DEF IInv, TypeOK, Good
<1>2. /\ shape'[o] = shape[p] /\ data'[o] = data[p] /\ shape'[p] = NoShape
      /\ \A x \in Objects \ {o, p} : shape'[x] = shape[x] /\ data'[x] = data[x]
  BY <1>1 DEF Reset, TypeOK
<1>3. Sane /\ o \in Good' /\ p \in Good' BY <1>1 DEF Sane, Good
<1>4. \A x \in Good \ {o} : data[x] # Null => mem'[data[x]] = mem[data[x]]
  <2> TAKE x \in Good \ {o}
  <2>1. CASE o \in Good /\ Delete(data[o])
    <3>1. Reallocate(data[o], Null, 0, 0) /\ 0 \in Value BY <2>1, ValuesAssumption DEF Delete, Value
    <3> QED BY <1>1, <1>3, <2>1, <3>1, MemoryApart
  <2>2. CASE UNCHANGED <<heapVars, seeing>> BY <2>2 DEF heapVars
  <2> QED BY <2>1, <2>2
<1>5. \A x \in Objects \ {o, p} : AsValues'[x] = AsValues[x]
  <2> TAKE x \in Objects \ {o, p}
  <2> QED BY <1>2, <1>4, SameValue
<1>6. AsValues'[o] = AsValues[p]
  <2>1. Content(data[o], shape[o])' = Content(data[p], shape[p]) BY <1>2, <1>4 DEF Content
  <2> QED BY <1>1, <1>2, <1>3, <2>1, ValueOf, ValueAfter
<1>7. AsValues'[p] = V!Empty BY <1>1, <1>2, <1>3, ValueAfter DEF ImageOf
<1>8. AsValues' = [AsValues EXCEPT ![o] = AsValues[p], ![p] = V!Empty]
  BY <1>1, <1>5, <1>6, <1>7, TwoValues
<1>9. AsValues[o] # V!Lost BY ValueOf, ValuesDiffer
<1>10. V!Usable(AsValues[p]) BY <1>1, ValueOf, ValuesDiffer
<1> QED BY <1>8, <1>9, <1>10 DEF V!Move

\* Writing to the memory of an image changes the value of that image.
LEMMA StoresValue ==
    ASSUME IInv, Sane, NEW o \in Good, NEW v \in Value, Store(data[o], v)
    PROVE  /\ AsValues' = [AsValues EXCEPT ![o] = AsValues'[o]]
           /\ AsValues'[o] = ImageOf(shape[o], IF SizeOf[shape[o]] = 0 \/ data[o] = Null THEN 0 ELSE v)
<1>1. TypeOK /\ MemTyped /\ Null \notin Block /\ o \in Objects BY NullAssumption DEF IInv, TypeOK, Good
<1>2. UNCHANGED <<alive, lost, shape, data>> BY DEF Store, objVars
<1>3. o \in Good' BY <1>2 DEF Good
<1>4. \A x \in Objects \ {o} : AsValues'[x] = AsValues[x]
  <2> TAKE x \in Objects \ {o}
  <2>1. x \in Good /\ data[x] # Null => mem'[data[x]] = mem[data[x]]
    <3> SUFFICES ASSUME x \in Good, data[x] # Null PROVE mem'[data[x]] = mem[data[x]] OBVIOUS
    <3>1. data[x] # data[o] BY DEF IInv, OneOwner
    <3> QED BY <1>1, <3>1 DEF Store, MemTyped
  <2> QED BY <1>2, <2>1, SameValue
<1>5. Content(data[o], shape[o])' = IF SizeOf[shape[o]] = 0 \/ data[o] = Null THEN 0 ELSE v
  <2>1. CASE SizeOf[shape[o]] = 0 \/ data[o] = Null BY <1>2, <2>1 DEF Content
  <2>2. CASE SizeOf[shape[o]] # 0 /\ data[o] # Null
    <3>1. mem[data[o]].size # 0 /\ data[o] \in Block BY <1>1, <2>2 DEF IInv, Sized, TypeOK
    <3>2. mem'[data[o]].value = v BY <1>1, <2>2, <3>1 DEF Store, MemTyped
    <3> QED BY <1>2, <2>2, <3>2 DEF Content
  <2> QED BY <2>1, <2>2
<1> QED BY <1>1, <1>2, <1>3, <1>4, <1>5, OneValue, ValueAfter

\* Each operation does to the images what it does to values.
LEMMA ValuesStep == IInv /\ Sane' /\ AsValues' # AsValues => OnValues(AsValues, AsValues')
<1> SUFFICES ASSUME IInv, Sane', AsValues' # AsValues PROVE OnValues(AsValues, AsValues') OBVIOUS
<1> DEFINE i == AsValues
           j == AsValues'
<1>1. /\ TypeOK /\ MemTyped /\ Good = alive \ lost /\ Good \subseteq Objects /\ Null \notin Block
      /\ \A o \in Objects : shape[o] \in AnyShape /\ data[o] \in Block \cup {Null}
      /\ Shape \subseteq AnyShape /\ seeing \subseteq Spans
  BY NullAssumption DEF IInv, TypeOK, Good, AnyShape
<1>2. \A o \in Good : i[o] = ImageOf(shape[o], Content(data[o], shape[o])) /\ V!Usable(i[o])
  BY <1>1, ValueOf, ValuesDiffer
<1>3. \A o \in Good : Content(data[o], shape[o]) \in Value
  BY <1>1, ContentTyped
\* The contents of an image without elements.
<1>4. \A o \in Good : SizeOf[shape[o]] = 0 \/ data[o] = Null => Content(data[o], shape[o]) = 0
  BY DEF Content
<1>5. ASSUME NEW o \in Objects, NEW p \in Good, CopyConstruct(o, shape[p], data[p])
      PROVE  V!CopyConstruct(i, j, o, p)
  <2> DEFINE v == Content(data[p], shape[p])
  <2>1. PICK b \in Block : Begins(o, shape[p], b) /\ New(b, SizeOf[shape[p]], v)
    BY <1>5 DEF CopyConstruct
  <2>2. /\ i[o] = V!Absent /\ j = [i EXCEPT ![o] = j[o]]
        /\ j[o] = ImageOf(shape[p], IF SizeOf[shape[p]] = 0 THEN 0 ELSE v)
    BY <1>1, <1>3, <2>1, EntersValue
  <2>3. (IF SizeOf[shape[p]] = 0 THEN 0 ELSE v) = v BY <1>4
  <2>4. j[o] = i[p] BY <1>2, <2>2, <2>3
  <2> HIDE DEF i, j
  <2> QED BY <1>2, <2>2, <2>4 DEF V!CopyConstruct
<1>6. ASSUME NEW o \in Objects, NEW s \in Shape, Construct(o, s) PROVE V!Construct(i, j, o)
  <2>1. PICK b \in Block, v \in Value : Begins(o, s, b) /\ New(b, SizeOf[s], v) BY <1>6 DEF Construct
  <2>2. /\ i[o] = V!Absent /\ j = [i EXCEPT ![o] = j[o]]
        /\ j[o] = ImageOf(s, IF SizeOf[s] = 0 THEN 0 ELSE v)
    BY <1>1, <2>1, EntersValue
  <2>3. V!Usable(j[o]) BY <2>2, ValuesDiffer
  <2> HIDE DEF i, j
  <2> QED BY <2>2, <2>3 DEF V!Construct
<1>7. ASSUME NEW o \in Objects, ConstructEmpty(o) PROVE V!Construct(i, j, o)
  <2>1. /\ o \notin alive /\ o \notin lost /\ alive' = alive \cup {o} /\ lost' = lost /\ mem' = mem
        /\ shape'[o] = NoShape /\ \A x \in Objects \ {o} : shape'[x] = shape[x] /\ data'[x] = data[x]
    BY <1>1, <1>7 DEF ConstructEmpty, Begins, Fresh, heapVars, TypeOK
  <2>2. \A x \in Objects \ {o} : j[x] = i[x] BY <2>1, SameValue
  <2>3. i[o] = V!Absent /\ j[o] = V!Empty BY <2>1, ValueOf, ValueAfter DEF Good, ImageOf
  <2>4. j = [i EXCEPT ![o] = j[o]] BY <2>2, OneValue
  <2>5. V!Usable(V!Empty) BY DEF V!Usable
  <2> HIDE DEF i, j
  <2> QED BY <2>3, <2>4, <2>5 DEF V!Construct
\* A step in which one image is written to.
<1>8. ASSUME NEW o \in Good, NEW v \in Value, Store(data[o], v)
      PROVE  /\ V!Write(i, j, o) /\ shape[o] # NoShape /\ V!IsImage(i[o]) /\ i[o].shape = shape[o]
             /\ i[o] = V!Image(shape[o], Content(data[o], shape[o]))
             /\ j[o] = V!Image(shape[o], IF SizeOf[shape[o]] = 0 \/ data[o] = Null THEN 0 ELSE v)
             /\ j = [i EXCEPT ![o] = j[o]]
  <2>1. Sane BY <1>8 DEF Store, objVars, Sane
  <2>2. /\ j = [i EXCEPT ![o] = j[o]]
        /\ j[o] = ImageOf(shape[o], IF SizeOf[shape[o]] = 0 \/ data[o] = Null THEN 0 ELSE v)
    BY <1>8, <2>1, StoresValue
  <2>3. shape[o] # NoShape
    <3> SUFFICES ASSUME shape[o] = NoShape PROVE FALSE OBVIOUS
    <3>1. i[o] = V!Empty /\ j[o] = V!Empty BY <1>2, <2>2 DEF ImageOf
    <3>2. i = [x \in Objects |-> i[x]] /\ j # i BY ValueOf
    <3> HIDE DEF i, j
    <3> QED BY <2>2, <3>1, <3>2
  <2>4. /\ i[o] = V!Image(shape[o], Content(data[o], shape[o]))
        /\ j[o] = V!Image(shape[o], IF SizeOf[shape[o]] = 0 \/ data[o] = Null THEN 0 ELSE v)
    BY <1>2, <2>2, <2>3 DEF ImageOf
  <2>5. V!IsImage(i[o]) /\ V!IsImage(j[o]) /\ i[o].shape = shape[o] /\ j[o].shape = shape[o]
    BY <2>4, ValuesDiffer
  <2> HIDE DEF i, j
  <2> QED BY <2>2, <2>3, <2>4, <2>5 DEF V!Write
<1>9. ASSUME NEW o \in Objects, Scale(o) PROVE V!Write(i, j, o)
  <2>1. o \in Good /\ \E v \in Value : Store(data[o], v) BY <1>1, <1>9 DEF Scale, Usable
  <2> QED BY <1>8, <2>1
<1>10. ASSUME NEW o \in Objects, Destroy(o) PROVE V!Destroy(i, j, o)
  <2>1. /\ o \in alive /\ alive' = alive \ {o} /\ lost' = lost /\ Delete(data[o])
        /\ \A x \in Objects \ {o} : shape'[x] = shape[x] /\ data'[x] = data[x]
    BY <1>1, <1>10 DEF Destroy, TypeOK
  <2>2. Sane /\ o \in Good BY <2>1 DEF Sane, Good
  <2>3. Reallocate(data[o], Null, 0, 0) /\ 0 \in Value BY <2>1, ValuesAssumption DEF Delete, Value
  <2>4. \A x \in Objects \ {o} : j[x] = i[x]
    <3> TAKE x \in Objects \ {o}
    <3>1. x \in Good /\ data[x] # Null => mem'[data[x]] = mem[data[x]]
      BY <1>1, <2>2, <2>3, MemoryApart
    <3> QED BY <2>1, <3>1, SameValue
  <2>5. j = [i EXCEPT ![o] = j[o]] BY <2>4, OneValue
  <2>6. j[o] = V!Absent BY <2>1, ValueAfter
  <2>7. i[o] # V!Absent BY <1>2, <2>2, ValuesDiffer
  <2> HIDE DEF i, j
  <2> QED BY <2>5, <2>6, <2>7 DEF V!Destroy
<1>11. ASSUME NEW o \in Objects, NEW p \in Objects, CopyObject(o, p) PROVE V!CopyConstruct(i, j, o, p)
  BY <1>1, <1>5, <1>11 DEF CopyObject, Usable
<1>12. ASSUME NEW o \in Objects, NEW p \in Objects, CopyAssign(o, p) \/ CopyAssignFails(o, p)
       PROVE  V!CopyAssign(i, j, o, p)
  <2>1. /\ o \in Good /\ p \in Good /\ o # p /\ alive' = alive
        /\ \A x \in Objects \ {o} : shape'[x] = shape[x] /\ data'[x] = data[x] /\ (x \in lost' <=> x \in lost)
    BY <1>1, <1>12 DEF CopyAssign, CopyAssignFails, Usable, TypeOK
  <2>2. Sane BY <1>12 DEF Sane, CopyAssign, CopyAssignFails
  <2>3. \A x \in Objects \ {o} : j[x] = i[x]
    <3> TAKE x \in Objects \ {o}
    <3>1. \E b \in Block \cup {Null}, v \in Value : \E n : Reallocate(data[o], b, n, v)
      <4>1. CASE CopyAssign(o, p) BY <1>3, <2>1, <4>1 DEF CopyAssign
      <4>2. CASE CopyAssignFails(o, p)
        <5>1. Reallocate(data[o], Null, 0, 0) /\ 0 \in Value
          BY <4>2, ValuesAssumption DEF CopyAssignFails, Delete, Value
        <5> QED BY <5>1
      <4> QED BY <1>12, <4>1, <4>2
    <3>2. x \in Good /\ data[x] # Null => mem'[data[x]] = mem[data[x]]
      BY <1>1, <2>1, <2>2, <3>1, MemoryApart
    <3> QED BY <2>1, <3>2, SameValue
  <2>4. j = [i EXCEPT ![o] = j[o]] BY <1>1, <2>1, <2>3, OneValue
  <2>5. j[o] \in {i[p], V!Lost}
    <3>1. CASE CopyAssign(o, p)
      <4>1. PICK b \in Block :
                /\ data' = [data EXCEPT ![o] = b]
                /\ Reallocate(data[o], b, SizeOf[shape[p]], Content(data[p], shape[p]))
        BY <3>1 DEF CopyAssign
      <4>2. shape'[o] = shape[p] /\ data'[o] = b /\ o \in Good' BY <1>1, <2>1, <3>1, <4>1 DEF CopyAssign, TypeOK, Good
      <4>3. mem'[b].value = Content(data[p], shape[p]) BY <1>1, <1>3, <2>1, <4>1, Reallocating
      <4>4. Content(data[o], shape[o])' = Content(data[p], shape[p])
        BY <1>1, <1>4, <2>1, <4>2, <4>3 DEF Content
      <4>5. j[o] = i[p] BY <1>1, <1>2, <2>1, <4>2, <4>4, ValueAfter
      <4> QED BY <4>5
    <3>2. CASE CopyAssignFails(o, p)
      <4>1. o \in alive' /\ o \in lost' BY <2>1, <3>2 DEF CopyAssignFails, Good
      <4>2. j[o] = V!Lost BY <1>1, <2>1, <4>1, ValueAfter
      <4> QED BY <4>2
    <3> QED BY <1>12, <3>1, <3>2
  <2>6. V!Usable(i[o]) /\ V!Usable(i[p]) BY <1>2, <2>1
  <2> HIDE DEF i, j
  <2> QED BY <2>4, <2>5, <2>6 DEF V!CopyAssign
<1>13. ASSUME NEW o \in Objects, NEW p \in Objects, MoveConstruct(o, p) \/ MoveAssign(o, p)
       PROVE  V!Move(i, j, o, p)
  <2>1. CASE MoveConstruct(o, p)
    <3>1. /\ p \in Good /\ o \notin alive /\ o \notin lost /\ o # p
          /\ alive' = alive \cup {o} /\ lost' = lost /\ UNCHANGED <<heapVars, seeing>>
          /\ shape' = Reset([shape EXCEPT ![o] = shape[p]], p, NoShape)
          /\ data' = Reset([data EXCEPT ![o] = data[p]], p, Null)
      BY <1>1, <2>1 DEF MoveConstruct, Usable, Fresh, spanVars
    <3> QED BY <3>1, PassesValue
  <2>2. CASE MoveAssign(o, p)
    <3>1. /\ p \in Good /\ o \in Good /\ o # p
          /\ alive' = alive \cup {o} /\ lost' = lost /\ Delete(data[o])
          /\ shape' = Reset([shape EXCEPT ![o] = shape[p]], p, NoShape)
          /\ data' = Reset([data EXCEPT ![o] = data[p]], p, Null)
      BY <1>1, <2>2 DEF MoveAssign, Usable
    <3> QED BY <3>1, PassesValue
  <2> QED BY <1>13, <2>1, <2>2
<1>14. ASSUME NEW o \in Objects, NEW p \in Objects, Combine(o, p) PROVE V!Combine(i, j, o, p)
  <2> DEFINE a == Content(data[o], shape[o])
             b == Content(data[p], shape[p])
  <2>1. o \in Good /\ p \in Good /\ shape[o] = shape[p] /\ Store(data[o], Combined(a, b))
    BY <1>1, <1>14 DEF Combine, Usable, SameShape
  <2>2. Combined(a, b) \in Value BY <1>3, <2>1, CombinedTyped
  <2>3. /\ shape[o] # NoShape /\ i[o] = V!Image(shape[o], a) /\ j = [i EXCEPT ![o] = j[o]]
        /\ j[o] = V!Image(shape[o], IF SizeOf[shape[o]] = 0 \/ data[o] = Null THEN 0 ELSE Combined(a, b))
    BY <1>8, <2>1, <2>2
  <2>4. i[p] = V!Image(shape[p], b) BY <1>2, <2>1, <2>3 DEF ImageOf
  <2>5. (IF SizeOf[shape[o]] = 0 \/ data[o] = Null THEN 0 ELSE Combined(a, b)) = Combined(a, b)
    <3>1. CASE SizeOf[shape[o]] = 0
      <4>1. a = 0 /\ b = 0 BY <1>4, <2>1, <3>1
      <4>2. Combined(0, 0) = 0 BY CombinedTyped, ValuesAssumption DEF Value
      <4> QED BY <3>1, <4>1, <4>2
    <3>2. data[o] # Null BY <1>1, <2>1, <2>3 DEF TypeOK
    <3> QED BY <3>1, <3>2
  <2>6. V!Combined(a, b) = Combined(a, b) BY DEF V!Combined, Combined
  <2>7. j[o] = V!Combination(i[o], i[p])
    <3> HIDE DEF a, b
    <3> QED BY <2>3, <2>4, <2>5, <2>6, ValuesDiffer DEF V!Combination
  <2>8. V!Alike(i[o], i[p])
    <3> HIDE DEF a, b
    <3> QED BY <2>1, <2>3, <2>4, ValuesDiffer DEF V!Alike
  <2> HIDE DEF i, j
  <2> QED BY <2>3, <2>7, <2>8 DEF V!Combine
<1>15. ASSUME NEW o \in Objects, NEW p \in Objects, NEW q \in Objects, Plus(o, p, q)
       PROVE  V!Plus(i, j, o, p, q)
  <2> DEFINE a == Content(data[p], shape[p])
             b == Content(data[q], shape[q])
  <2>1. p \in Good /\ q \in Good /\ shape[p] = shape[q] BY <1>1, <1>15 DEF Plus, Usable, SameShape
  <2>2. Combined(a, b) \in Value BY <1>3, <2>1, CombinedTyped
  <2>3. /\ i[o] = V!Absent /\ j = [i EXCEPT ![o] = j[o]]
        /\ j[o] = ImageOf(shape[p], IF SizeOf[shape[p]] = 0 THEN 0 ELSE Combined(a, b))
    <3>1. PICK c \in Block : Begins(o, shape[p], c) /\ New(c, SizeOf[shape[p]], Combined(a, b))
      BY <1>15 DEF Plus
    <3> HIDE DEF a, b
    <3> QED BY <1>1, <2>1, <2>2, <3>1, EntersValue
  <2>4. (IF SizeOf[shape[p]] = 0 THEN 0 ELSE Combined(a, b)) = Combined(a, b)
    <3>1. CASE SizeOf[shape[p]] = 0
      <4>1. a = 0 /\ b = 0 BY <1>4, <2>1, <3>1
      <4>2. Combined(0, 0) = 0 BY CombinedTyped, ValuesAssumption DEF Value
      <4> QED BY <3>1, <4>1, <4>2
    <3> QED BY <3>1
  <2>5. i[p] = ImageOf(shape[p], a) /\ i[q] = ImageOf(shape[p], b) /\ j[o] = ImageOf(shape[p], Combined(a, b))
    BY <1>2, <2>1, <2>3, <2>4
  <2>6. V!Combined(a, b) = Combined(a, b) BY DEF V!Combined, Combined
  <2> HIDE DEF i, j, a, b
  <2>7. CASE shape[p] = NoShape
    <3>1. i[p] = V!Empty /\ i[q] = V!Empty /\ j[o] = V!Empty BY <2>5, <2>7 DEF ImageOf
    <3> QED BY <2>3, <3>1 DEF V!Plus
  <2>8. CASE shape[p] # NoShape
    <3>1. /\ i[p] = V!Image(shape[p], a) /\ i[q] = V!Image(shape[p], b)
          /\ j[o] = V!Image(shape[p], Combined(a, b))
      BY <2>5, <2>8 DEF ImageOf
    <3>2. V!Alike(i[p], i[q]) BY <3>1, ValuesDiffer DEF V!Alike
    <3>3. j[o] = V!Combination(i[p], i[q]) BY <2>6, <3>1, ValuesDiffer DEF V!Combination
    <3> QED BY <2>3, <3>2, <3>3 DEF V!Plus
  <2> QED BY <2>7, <2>8
<1>16. ASSUME NEW k \in Spans, WriteSpan(k)
       PROVE  \E o \in Objects : data[o] = span[k].data /\ V!Write(i, j, o)
  <2>1. PICK v \in Value : k \in seeing /\ Store(span[k].data, v) BY <1>16 DEF WriteSpan
  <2>2. Sane BY <2>1 DEF Store, objVars, Sane
  <2>3. PICK o \in Good : data[o] = span[k].data BY <2>1, <2>2 DEF IInv, SpansSee
  <2>4. V!Write(i, j, o) BY <1>8, <2>1, <2>3
  <2> QED BY <1>1, <2>3, <2>4
<1>17. ASSUME NEW k \in Spans, NEW o \in Objects, CopySpan(o, k)
       PROVE  \E p \in Objects : data[p] = span[k].data /\ V!CopyConstruct(i, j, o, p)
  <2>1. k \in seeing /\ CopyConstruct(o, span[k].shape, span[k].data) BY <1>17 DEF CopySpan
  <2>2. Sane BY <2>1 DEF CopyConstruct, Begins, Fresh, Sane
  <2>3. PICK p \in Good : data[p] = span[k].data /\ shape[p] = span[k].shape
    BY <2>1, <2>2 DEF IInv, SpansSee
  <2>4. V!CopyConstruct(i, j, o, p) BY <1>5, <2>1, <2>3
  <2> QED BY <1>1, <2>3, <2>4
<1> HIDE DEF i, j
<1>18. \A o \in Objects : OnImage(i, j, o) BY <1>6, <1>7, <1>9, <1>10 DEF OnImage
<1>19. \A o \in Objects, p \in Objects : OnImages(i, j, o, p)
  BY <1>11, <1>12, <1>13, <1>14, <1>15 DEF OnImages
<1>20. \A k \in Spans : OnSpan(i, j, k) BY <1>16, <1>17 DEF OnSpan
<1>21. OnValues(i, j) BY <1>18, <1>19, <1>20 DEF OnValues
<1> QED BY <1>21 DEF i, j

\* No image changes through memory it shares with the target of an operation.
THEOREM ImagesAreValues == Spec => ImplementsValues
<1>1. Init => AsValues = V!Start BY DEF Init, AsValues, V!Start, V!Absent
<1>2. IInv => [Sane' => OnValues(AsValues, AsValues')]_AsValues BY ValuesStep
<1> QED BY <1>1, <1>2, Invariance, PTL DEF Spec, ImplementsValues
=============================================================================
