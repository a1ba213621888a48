-------------------------------- MODULE Btf --------------------------------
(***************************************************************************)
(* The BTF reader (truetop/src/btf.rs): Btf::field_offset and              *)
(* Btf::tracepoint_proto_params as walks over the type section, record     *)
(* after record, on any list of types, whole or cut short.  Each lookup    *)
(* reads the file again, and there may be none; Startup makes the lookups. *)
(*                                                                         *)
(* Positions are in 32-bit words, as every record is a number of them.     *)
(* A word is [lo, hi]: its low 24 bits and its high 8, which hold a kind   *)
(* and the kflag, or the size of a bit field.  A name is a number, 0 for   *)
(* none, and strings are always readable; the byte order of the file,      *)
(* which u32 undoes, is left out.                                          *)
(***************************************************************************)
EXTENDS Naturals, Sequences, SequencesExt

KIND_INT == 1
KIND_PTR == 2
KIND_ARRAY == 3
KIND_STRUCT == 4
KIND_UNION == 5
KIND_ENUM == 6
KIND_TYPEDEF == 8
KIND_FUNC_PROTO == 13
KIND_VAR == 14
KIND_DATASEC == 15
KIND_DECL_TAG == 17
KIND_ENUM64 == 19

-----------------------------------------------------------------------------
(* The format (uapi/linux/btf.h).  A type is [kind, name, kflag, type,     *)
(* parts]; a part is a member, parameter, enumerator or section variable:  *)
(* [name, type, bits, width].                                              *)

Word == [lo : Nat, hi : Nat]

Number(n) == [lo |-> n, hi |-> 0]

Header(t) ==
    <<Number(t.name), [lo |-> Len(t.parts), hi |-> t.kind + 128 * t.kflag], Number(t.type)>>

Part(t, p) ==
    IF t.kind \in {KIND_STRUCT, KIND_UNION}
    THEN <<Number(p.name), Number(p.type),
           [lo |-> p.bits, hi |-> IF t.kflag = 1 THEN p.width ELSE 0]>>
    ELSE IF t.kind \in {KIND_ENUM, KIND_FUNC_PROTO}
    THEN <<Number(p.name), Number(p.type)>>
    ELSE <<Number(p.type), Number(p.bits), Number(p.width)>>

(* Records without parts that carry data of their own. *)
Payload(t) ==
    IF t.kind \in {KIND_INT, KIND_VAR, KIND_DECL_TAG} THEN <<Number(32)>>
    ELSE IF t.kind = KIND_ARRAY THEN <<Number(1), Number(1), Number(4)>>
    ELSE FlattenSeq([i \in DOMAIN t.parts |-> Part(t, t.parts[i])])

Record(t) == Header(t) \o Payload(t)
Section(ts) == FlattenSeq([i \in DOMAIN ts |-> Record(ts[i])])

(* Where the i-th type begins: the header of the file takes six words, the *)
(* types before it theirs.                                                 *)
type_off == 6
StartOf(ts, i) == type_off + Len(Section(SubSeq(ts, 1, i - 1)))
EndOf(ts, i) == StartOf(ts, i + 1)

(* A type the format can express: vlen has sixteen bits, and only some     *)
(* kinds have parts.                                                       *)
BtfPart == [name : Nat, type : Nat, bits : Nat, width : Nat]
BtfType ==
    {t \in [kind : 1..19, name : Nat, kflag : {0, 1}, type : Nat, parts : Seq(BtfPart)] :
        /\ Len(t.parts) < 2^16
        /\ t.parts # <<>> => t.kind \in {KIND_STRUCT, KIND_UNION, KIND_ENUM, KIND_FUNC_PROTO,
                                        KIND_DATASEC, KIND_ENUM64}}

-----------------------------------------------------------------------------
VARIABLES
    readable,       \* there is a file, and it starts as one
    types,          \* its list of types
    data,           \* its type section
    end,            \* where its header says the section ends, clamped
    walk,           \* none, walking, done
    goal,           \* what is looked up: [struct, field] or [typedef]
    cur,            \* the walk's position
    offsets,        \* type_offsets so far: id + 1 -> position
    result          \* [ok, value]

file == <<readable, types, data, end>>
btf == <<file, walk, goal, cur, offsets, result>>

size == type_off + Len(data)

Field(s, f) == [struct |-> s, field |-> f, typedef |-> 0]
Proto(t) == [struct |-> 0, field |-> 0, typedef |-> t]
OfField == goal.typedef = 0

BtfTypeOK ==
    /\ readable \in BOOLEAN
    /\ end \in type_off..size
    /\ goal \in [struct : Nat, field : Nat, typedef : Nat] /\ walk \in {"none", "walking", "done"}
    /\ cur \in Nat
    /\ offsets \in Seq(0..size)
    /\ result.ok \in BOOLEAN /\ result.value \in Nat

Ok(v) == [ok |-> TRUE, value |-> v]
Err == [ok |-> FALSE, value |-> 0]

(* Btf::load: the file may end, and its header may say that the section    *)
(* ends, anywhere in it.                                                   *)
File(ts) ==
    LET whole == Section(ts) IN
    /\ types = ts
    /\ \/ readable = FALSE /\ data = <<>> /\ end = type_off
       \/ /\ readable = TRUE
          /\ \E n \in 0..Len(whole) :
                \/ data = SubSeq(whole, 1, n) /\ end = type_off + n
                \/ data = whole /\ end = type_off + n

NoWalk == walk = "none" /\ goal = Field(0, 0) /\ cur = type_off /\ offsets = <<0>> /\ result = Err

(* field_byte_offset and sched_switch_has_prev_state read the file and     *)
(* begin at its first type.                                                *)
Lookup(g) ==
    /\ walk = "none"
    /\ walk' = IF readable THEN "walking" ELSE "done"
    /\ goal' = g /\ cur' = type_off /\ offsets' = <<0>> /\ result' = Err
    /\ UNCHANGED file

(* Btf::u32, past the buffer nothing. *)
Readable(at) == at < size
u32(at) == data[at - type_off + 1]

vlen(at) == u32(at + 1).lo % 2^16
kind(at) == u32(at + 1).hi % 32
kflag(at) == u32(at + 1).hi \div 128
type_name(at) == u32(at).lo

(* Seeded fault: a 64-bit enumerator is taken for a 32-bit one.            *)
extra_len_Enum64(at) ==
    IF kind(at) \in {KIND_INT, KIND_VAR, KIND_DECL_TAG} THEN 1
    ELSE IF kind(at) = KIND_ARRAY THEN 3
    ELSE IF kind(at) \in {KIND_STRUCT, KIND_UNION, KIND_DATASEC} THEN 3 * vlen(at)
    ELSE IF kind(at) \in {KIND_ENUM, KIND_FUNC_PROTO, KIND_ENUM64} THEN 2 * vlen(at)
    ELSE 0

(* The words of a record after its header. *)
extra_len(at) ==
    IF kind(at) \in {KIND_INT, KIND_VAR, KIND_DECL_TAG} THEN 1
    ELSE IF kind(at) = KIND_ARRAY THEN 3
    ELSE IF kind(at) \in {KIND_STRUCT, KIND_UNION, KIND_DATASEC, KIND_ENUM64} THEN 3 * vlen(at)
    ELSE IF kind(at) \in {KIND_ENUM, KIND_FUNC_PROTO} THEN 2 * vlen(at)
    ELSE 0

-----------------------------------------------------------------------------
(* field_offset. *)

(* The members that can be read and have the name, by their index.         *)
Named(at) ==
    {i \in 0..vlen(at) - 1 : Readable(at + 3 + 3 * i + 2) /\ u32(at + 3 + 3 * i).lo = goal.field}

(* With kflag the low 24 bits are the bit offset, else the whole word.     *)
bit_off(at, bits) == IF kflag(at) = 1 THEN bits.lo ELSE bits.lo + bits.hi * 2^24

AtStruct == kind(cur) = KIND_STRUCT /\ type_name(cur) = goal.struct

FieldFound ==
    /\ walk = "walking" /\ OfField /\ cur + 3 <= end /\ AtStruct
    /\ \E i \in Named(cur) :
          /\ \A j \in Named(cur) : i <= j
          /\ result' = Ok(bit_off(cur, u32(cur + 3 + 3 * i + 2)) \div 8)
    /\ walk' = "done"
    /\ UNCHANGED <<file, goal, cur, offsets>>

FieldMissing ==
    /\ walk = "walking" /\ OfField
    /\ \/ cur + 3 > end
       \/ cur + 3 <= end /\ AtStruct /\ Named(cur) = {}
    /\ result' = Err
    /\ walk' = "done"
    /\ UNCHANGED <<file, goal, cur, offsets>>

(* Seeded fault: the header of a record is not counted.                    *)
Skip_NoHeader ==
    /\ walk = "walking" /\ OfField /\ cur + 3 <= end /\ ~AtStruct
    /\ cur' = cur + extra_len(cur)
    /\ UNCHANGED <<file, walk, goal, offsets, result>>

Skip ==
    /\ walk = "walking" /\ OfField /\ cur + 3 <= end /\ ~AtStruct
    /\ cur' = cur + 3 + extra_len(cur)
    /\ UNCHANGED <<file, walk, goal, offsets, result>>

-----------------------------------------------------------------------------
(* tracepoint_proto_params. *)

(* type_offsets: one position per type id. *)
Index ==
    /\ walk = "walking" /\ ~OfField /\ cur + 3 <= end
    /\ offsets' = Append(offsets, cur)
    /\ cur' = cur + 3 + extra_len(cur)
    /\ UNCHANGED <<file, walk, goal, result>>

(* The record a typedef or pointer refers to, 0 if dangling or of another  *)
(* kind.                                                                   *)
referent(at, expected) ==
    LET id == u32(at + 2).lo + 1 IN
    IF id \in DOMAIN offsets /\ offsets[id] # 0 /\ kind(offsets[id]) = expected
    THEN offsets[id] ELSE 0

find_type ==
    LET found == {i \in 2..Len(offsets) :
                     kind(offsets[i]) = KIND_TYPEDEF /\ type_name(offsets[i]) = goal.typedef} IN
    IF found = {} THEN 0 ELSE offsets[CHOOSE i \in found : \A j \in found : i <= j]

Resolve ==
    /\ walk = "walking" /\ ~OfField /\ cur + 3 > end
    /\ LET pointer == IF find_type = 0 THEN 0 ELSE referent(find_type, KIND_PTR)
           prototype == IF pointer = 0 THEN 0 ELSE referent(pointer, KIND_FUNC_PROTO)
       IN result' = IF prototype = 0 THEN Err ELSE Ok(vlen(prototype))
    /\ walk' = "done"
    /\ UNCHANGED <<file, goal, cur, offsets>>

Walk == FieldFound \/ FieldMissing \/ Skip \/ Index \/ Resolve

-----------------------------------------------------------------------------
(* What the format says of a field: its byte offset in the first struct of *)
(* that name.                                                              *)
First(S) == CHOOSE i \in S : \A j \in S : i <= j
Structs(s) == {i \in DOMAIN types : types[i].kind = KIND_STRUCT /\ types[i].name = s}
Fields(t, f) == {j \in DOMAIN t.parts : t.parts[j].name = f}
FieldIs(s, f, v) ==
    /\ Structs(s) # {}
    /\ LET t == types[First(Structs(s))] IN
          Fields(t, f) # {} /\ v = t.parts[First(Fields(t, f))].bits \div 8

(* The prototype the format finds behind the first such typedef, 0 if none.*)
Target(i, k) ==
    LET id == types[i].type IN IF id \in DOMAIN types /\ types[id].kind = k THEN id ELSE 0
Typedefs(n) == {i \in DOMAIN types : types[i].kind = KIND_TYPEDEF /\ types[i].name = n}
Prototype(n) ==
    IF Typedefs(n) = {} THEN 0
    ELSE LET p == Target(First(Typedefs(n)), KIND_PTR) IN IF p = 0 THEN 0 ELSE Target(p, KIND_FUNC_PROTO)

FieldOffsetIsRight ==
    LET s == goal.struct f == goal.field IN
    /\ result.ok => FieldIs(s, f, result.value)
    /\ ~result.ok /\ Structs(s) # {} =>
          \/ EndOf(types, First(Structs(s))) > end
          \/ Fields(types[First(Structs(s))], f) = {}

ParamsAreRight ==
    LET p == Prototype(goal.typedef) IN
    /\ result.ok => p # 0 /\ result.value = Len(types[p].parts)
    /\ ~result.ok /\ end = StartOf(types, Len(types) + 1) => p = 0

(* A lookup's answer is the one the format gives, whatever types the walk  *)
(* has to pass, and what is wholly there is found; of a section cut short  *)
(* the answer is that or an error.  The number of parameters is that of    *)
(* the tracepoint's own prototype, however the three records that lead to  *)
(* it are ordered among others.                                            *)
LookupIsRight ==
    walk = "done" /\ readable => IF OfField THEN FieldOffsetIsRight ELSE ParamsAreRight
=============================================================================
