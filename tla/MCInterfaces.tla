---------------------------- MODULE MCInterfaces ----------------------------
(***************************************************************************)
(* Small programs for the interfaces: three applications that exchange     *)
(* messages, and one source file whose statements before a call vary.      *)
(***************************************************************************)
EXTENDS Interfaces

P(name, calls, direction, payload) ==
  [name |-> name, calls |-> {calls}, found |-> {calls}, type |-> "ipc", direction |-> direction,
   msgArg |-> 1, callbackArg |-> 0, payloadArg |-> payload]

MCPatterns ==
  <<P("put", "putMsg", "send", 2), P("get", "getMsg", "recv", 0),
    [P("on", "onMsg", "recv", 0) EXCEPT !.callbackArg = 2],
    \* Anchored: its calls are collected with those of another, or not at all.
    [P("peek", "peekMsg", "recv", 0) EXCEPT !.found = {}],
    P("ask", "askMsg", "bidirectional", 0), [P("ctl", "ctlMsg", "control", 0) EXCEPT !.msgArg = 0]>>

MCStructNames == [n \in {"REQ"} |-> <<"Req", "Hdr">>]

\* Texts
Name(v) == [form |-> "name", var |-> v]
Address(v) == [form |-> "address", var |-> v]
AddressOfMember(v, f) == [form |-> "address", var |-> v, field |-> f]
Pointer(v) == [form |-> "pointer", var |-> v]
Member(v, f) == [form |-> "member", var |-> v, field |-> f]
Cast(t, of) == [form |-> "cast", type |-> t, of |-> of]
Sizeof(t) == [form |-> "sizeof", type |-> t]
Declare(v, t) == [form |-> "declare", var |-> v, type |-> t]
Assign(v, rhs) == [form |-> "assign", var |-> v, rhs |-> rhs]
Copy(v, rhs) == [form |-> "copy", var |-> v, rhs |-> rhs]
Field(n, t, pointer) == [name |-> n, type |-> t, pointer |-> pointer]

Call(callee, args) == [callee |-> callee, args |-> args, params |-> <<>>, blocks |-> <<<<>>>>]
CallIn(callee, args, params, blocks) == [callee |-> callee, args |-> args, params |-> params, blocks |-> blocks]

File(name, zones, kind) ==
  [name |-> name, zones |-> zones, kind |-> kind, rejected |-> FALSE, mentions |-> {}, defines |-> {},
   enumerated |-> {}, structs |-> <<>>, aliases |-> <<>>, functions |-> <<>>, calls |-> <<>>]
Source(name, zones, mentions, calls) ==
  LET In(c) == {c.callee} \cup UNION {Identifiers(arg) : arg \in ToSet(c.args)} \cup {q.type : q \in ToSet(c.params)}
  IN  [File(name, zones, "source") EXCEPT !.mentions = mentions \cup UNION {In(c) : c \in ToSet(calls)},
                                          !.calls = calls]
Struct(name, fields) == name :> fields

Protocol ==
  [File("protocol.h", {"external"}, "header") EXCEPT
     !.defines = {"REQ", "LIMIT"}, !.enumerated = {"RSP"},
     !.structs = Struct("Hdr", <<Field("id", "int", FALSE)>>)
                   @@ Struct("Req", <<Field("h", "Hdr", FALSE), Field("next", "Req", TRUE)>>)
                   @@ Struct("Rsp", <<Field("h", "HDR", FALSE)>>) @@ Struct("Log", <<Field("h", "Hdr", FALSE)>>),
     !.aliases = "HDR" :> "Hdr"]

\* The header of the same name that an application has of its own.
Refused == [File("protocol.h", {"ui"}, "header") EXCEPT !.rejected = TRUE]
Older == [File("older.h", {"nav"}, "header") EXCEPT !.defines = {"REQ"}, !.structs = Struct("Req", <<>>)]

\* One asks and the other answers, through a hub or not.
Exchange ==
  "protocol" :> Protocol
  @@ "nav" :> Source("nav.c", {"nav"}, {"REQ", "RSP"},
       <<Call("putMsg", <<Name("REQ"), Address("req")>>), Call("getMsg", <<Name("RSP"), Name("buf")>>)>>)
  @@ "ui" :> Source("ui.c", {"ui"}, {"REQ", "RSP", "handle"},
       <<Call("onMsg", <<Name("REQ"), Name("handle")>>), Call("putMsg", <<Name("RSP"), Pointer("rsp")>>)>>)
  @@ "log" :> Source("log.c", {"hub"}, {"REQ", "Log", "recv"},
       <<Call("recv", <<Name("fd"), Sizeof("Log")>>)>>)
  @@ "relay" :> [Source("relay.c", {"hub"}, {"REQ"}, <<Call("askMsg", <<Name("REQ")>>)>>)
                   EXCEPT !.defines = {"REQ"}]
  @@ "quiet" :> Source("quiet.c", {"hub", "nav"}, {"RSP", "REQ"}, <<>>)

\* Messages that only one side has, constants nobody defines, structs that
\* are only implied, and headers that get in each other's way.
Broadcast ==
  "protocol" :> Protocol @@ "refused" :> Refused @@ "older" :> Older
  @@ "nav" :> Source("nav.c", {"nav"}, {"REQ", "TICK"},
       <<Call("putMsg", <<Name("REQ"), Address("req")>>), Call("putMsg", <<Name("TICK"), Name("now")>>)>>)
  @@ "ui" :> [Source("ui.c", {"ui"}, {"REQ", "TICK", "handle", "Rsp", "Req", "int"},
                <<Call("onMsg", <<Name("REQ"), Name("handle")>>), Call("getMsg", <<Name("TICK"), Sizeof("Rsp")>>)>>)
                EXCEPT !.functions = "handle" :> <<"Req", "int">>]
  @@ "hub" :> Source("hub.c", {"hub"}, {"REQ"}, 
       <<Call("getMsg", <<Cast("int", Name("REQ"))>>), Call("peekMsg", <<Name("TICK")>>)>>)
  @@ "send" :> Source("send.c", {"hub"}, {"REQ", "TICK", "Rsp"},
       <<CallIn("putMsg", <<Name("REQ"), Cast("Rsp", Name("b"))>>, <<Field("r", "Rsp", TRUE)>>, <<<<Declare("b", "char")>>>>),
         Call("ctlMsg", <<Name("TICK"), Sizeof("Rsp")>>)>>)

\* Two applications of the same files, some of which only mention a message.
Twins ==
  "protocol" :> Protocol
  @@ "nav" :> Source("nav.c", {"nav", "hub"}, {"REQ", "Log", "recv"},
       <<Call("putMsg", <<Name("REQ"), Address("req")>>), Call("recv", <<Name("fd"), Sizeof("Log")>>)>>)
  @@ "quiet" :> Source("quiet.c", {"nav", "hub"}, {"REQ", "Log"}, <<>>)
  @@ "notes" :> Source("notes.c", {"nav", "hub"}, {"REQ"}, <<>>)
  @@ "admin" :> Source("admin.c", {"ui"}, {"REQ"},
       <<Call("ctlMsg", <<Name("REQ")>>), Call("peekMsg", <<Name("REQ")>>)>>)

\* One call, and what may come before it: three variables, assignments to the
\* pointer p, in the block of the call or the one around it, where m may be
\* declared again.
Preceding ==
  {Assign("p", Address("m")), Assign("p", AddressOfMember("k", "a")), Assign("p", Cast("A", Address("k"))),
   Assign("p", Pointer("k")), Assign("p", Cast("void", Name("m"))), Copy("p", Address("k"))}
Declared == <<Declare("m", "A"), Declare("k", "B"), Declare("p", "void")>>
Sent == {Name("p"), Name("r"), Address("m"), Cast("A", AddressOfMember("k", "a")), Cast("T", Name("p")), Cast("int", Member("r", "b"))}

Blocks ==
  {<<Declared \o s>> : s \in SeqOf(Preceding, 2)}
    \cup {<<inner, Declared \o outer>> :
            inner \in {<<Declare("m", "B"), s>> : s \in Preceding} \cup {<<s>> : s \in Preceding},
            outer \in SeqOf(Preceding, 1)}

Types ==
  [File("types.h", {"nav"}, "header") EXCEPT
     !.structs = Struct("A", <<Field("x", "int", FALSE)>>) @@ Struct("B", <<Field("a", "A", FALSE)>>)
                   @@ Struct("R", <<Field("b", "B", FALSE)>>),
     !.aliases = "T" :> "A"]

Snippet(arg, blocks) ==
  "types" :> Types
  @@ "snip" :> Source("snip.c", {"nav"}, {"TICK"},
       <<CallIn("putMsg", <<Name("TICK"), arg>>, <<Field("r", "R", TRUE)>>, blocks)>>)

MCPrograms ==
  [id \in {<<"exchange">>, <<"broadcast">>, <<"twins">>} \cup (Sent \X Blocks) |->
     CASE id = <<"exchange">> -> Exchange [] id = <<"broadcast">> -> Broadcast
       [] id = <<"twins">> -> Twins [] OTHER -> Snippet(id[1], id[2])]

\* A pointer cast twice, once in each of two blocks.
Nested ==
  {<<<<Assign("p", Cast(t, Name("q")))>>, Declared \o <<Assign("p", Cast(u, Name("q")))>>>> : t, u \in {"A", "B"}}

MCNested == [id \in {Name("p")} \X Nested |-> Snippet(id[1], id[2])]
=============================================================================
