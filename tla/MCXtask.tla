------------------------------ MODULE MCXtask ------------------------------
(* Every way to start xtask: `run` on many kernels, and on one kernel the  *)
(* other argument lists and verbs, on machines with and without knobs.     *)
EXTENDS Xtask

Type(k, n, f, t, ps) == [kind |-> k, name |-> n, kflag |-> f, type |-> t, parts |-> ps]
Member(n, b, w) == [name |-> n, type |-> 1, bits |-> b, width |-> w]

another == 12

(* Odd ones: a task_struct behind, and among, a type of every kind.        *)
TaskStructs ==
    {Type(KIND_STRUCT, n, f, 8, ps) :
        n \in {task_struct, another}, f \in {0, 1},
        ps \in {<<>>, <<Member(another, 0, 1), Member(pid, 40, 3)>>}}
Others ==
    {Type(k, another, 0, 1, <<>>) : k \in {KIND_INT, KIND_ARRAY, KIND_VAR, KIND_DECL_TAG, 7, KIND_PTR}}
    \cup {Type(k, task_struct, 0, 1, <<Member(pid, 8, 4)>>) : k \in {KIND_UNION, KIND_ENUM, KIND_DATASEC, KIND_ENUM64}}
OddKernels == {<<a, b>> : a \in Others \cup TaskStructs, b \in {t \in TaskStructs : t.name = task_struct}}

(* Complete ones: the structs, a type between them, and the tracepoint's   *)
(* chain in four orders, whole or with a reference to the wrong record.    *)
Task(tgid_bits, name) ==
    Type(KIND_STRUCT, task_struct, 1, 8,
         <<Member(pid, 8, 0), Member(another, 36, 3), Member(tgid, tgid_bits, 0), Member(signal, 80, 0), Member(name, 96, 0)>>)
Structs3(task) ==
    <<task, Type(KIND_ENUM64, another, 0, 1, <<Member(another, 1, 1)>>),
      Type(KIND_STRUCT, signal_struct, 0, 8, <<Member(live, 16, 0)>>),
      Type(KIND_STRUCT, cred, 0, 8, <<Member(uid, 24, 0)>>)>>
Params(n) == [i \in 1..n |-> Member(0, 0, 0)]
Chain(p, n, miss) ==
    LET ptr == 4 + p[2] proto == 4 + p[3] IN
    [i \in 1..3 |->
        CASE i = p[1] -> Type(KIND_TYPEDEF, btf_trace_sched_switch, 0, ptr, <<>>)
          [] i = p[2] -> Type(KIND_PTR, 0, 0, proto + miss, <<>>)
          [] i = p[3] -> Type(KIND_FUNC_PROTO, 0, 0, 0, Params(n))]
InOrder == <<1, 2, 3>>
Small == Structs3(Task(40, __state)) \o Chain(InOrder, 5, 0)

MCKernels ==
    {Structs3(Task(40, __state)) \o Chain(p, 5, 0) : p \in {InOrder, <<3, 1, 2>>, <<3, 2, 1>>}}
    \cup {Structs3(Task(40, state)) \o Chain(<<2, 3, 1>>, n, IF n = 4 THEN 1 ELSE 0) : n \in {4, 5}}
    \cup {Structs3(Task(72, __state)), Structs3(Task(40, another)), Structs3(Task(40, state))}

-----------------------------------------------------------------------------
Knobless == [governor |-> <<"absent", "absent">>, turbo |-> <<"absent", "absent">>]
Machines ==
    {[governor |-> g, turbo |-> t] :
        g \in {<<"powersave", "powersave">>, <<"schedutil", "powersave">>, <<"performance", "powersave">>},
        t \in {<<"0", "absent">>, <<"absent", "1">>, <<"1", "1">>}}
    \cup {Knobless}

Invoke(v, as, ks, ms) == {[verb |-> v, args |-> a, kernel |-> k, machine |-> m] : a \in as, k \in ks, m \in ms}

MCInvocations ==
    Invoke("run", {<<"--bench", "0">>}, MCKernels \cup OddKernels, {Knobless})
    \cup Invoke("run", {<<"--max-processes", "1">>, <<"--bench", "0", "--max-processes", "3", "--bench", "2">>,
                        <<"--background", "dark", "--bench", "1">>, <<"--bench">>, <<"--bench", "fast">>,
                        <<"--max-processes", "0">>, <<"-h", "fast">>, <<"--bench", "1", "fast">>}, {<<>>, Small}, {Knobless})
    \cup Invoke("test", {<<>>, <<"lib", "ebpf", "ui">>}, {<<>>}, {Knobless})
    \cup Invoke("bench", {<<>>, <<"--no-prep", "micro">>, <<"micro", "-h">>, <<"switch", "micro", "switch">>, <<"micro", "fast">>},
                {<<>>}, Machines)
    \cup Invoke("update-btf-fixtures", {<<"v1", "v2">>}, {<<>>}, {Knobless})
    \cup Invoke("fast", {<<>>}, {<<>>}, {Knobless})

MCDefaults == <<"micro", "macro">>

MCTopologies ==
    {[possible |-> 2, online |-> 1], [possible |-> 100, online |-> 1], [possible |-> 600, online |-> 1],
     [possible |-> 1, online |-> 2], [possible |-> 1, online |-> 0]}
=============================================================================
