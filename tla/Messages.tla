------------------------------ MODULE Messages ------------------------------
(***************************************************************************)
(* The messages of an application (analyzer/messagingExtractor.ts, and     *)
(* analyzer/index.ts which calls it): constants and structs that stand for *)
(* a message, the direction the application handles it in, and the role of *)
(* each file.                                                              *)
(*                                                                         *)
(* Names are found in four ways, the later ones only for names the earlier *)
(* ones did not find: constants that look like message types, structs the  *)
(* user chose, constants passed to a messaging call, and structs implied   *)
(* by one.  The first two learn their direction from the IPC calls of the  *)
(* files that mention the name; the others from the calls themselves.      *)
(***************************************************************************)
EXTENDS Sources

CONSTANTS
  MsgConstants,   \* the names that look like message types
  ChosenStructs,  \* the structs the user's struct patterns match
  StructNames     \* per constant, the names its struct may have

SEND_CALLS == {"send", "sendto", "write", "mq_send", "fwrite"}
RECV_CALLS == {"recv", "recvfrom", "read", "mq_receive", "fread"}

Sends(c) == c.name \in SEND_CALLS \/ c.type = "socket-send" \/ c.direction \in {"send", "bidirectional"}
Receives(c) == c.name \in RECV_CALLS \/ c.type = "socket-recv" \/ c.direction \in {"recv", "bidirectional"}

Exists(seq, Test(_)) == \E i \in DOMAIN seq : Test(seq[i])

\* The first of the names it may have.
resolveStruct(constant, d) ==
  LET names == IF constant \in DOMAIN StructNames THEN StructNames[constant] ELSE <<>>
      known == First(names, LAMBDA n : n \in d.structs)
  IN  IF known = {} THEN Nothing ELSE The(known)

Direction(sends, receives) ==
  IF sends /\ receives THEN "both" ELSE IF sends THEN "producer" ELSE IF receives THEN "consumer" ELSE "unknown"

Using(name, analyses) == Where(analyses, LAMBDA a : name \in a.mentions)

\* The last call that sends gives the transport, or else the first that receives.
Transport(calls) ==
  LET sending == Hindmost({s \in DOMAIN calls : Sends(calls[s])})
      receiving == Foremost({s \in DOMAIN calls : Receives(calls[s])})
  IN  IF sending \cup receiving = {} THEN Nothing ELSE calls[The(sending ?? receiving)].type

Inferred(calls) ==
  LET direction == Direction(Exists(calls, Sends), Exists(calls, Receives))
  IN  [direction |-> direction, confident |-> direction # "unknown", transport |-> Transport(calls)]

\* Mutant: by the first of the files.
InferByFirst(name, analyses) ==
  LET using == Using(name, analyses)
  IN  Inferred(Flat([i \in {i \in DOMAIN using : \A j \in DOMAIN using : i <= j} |-> using[i].ipc]))

inferDirection(name, analyses) == Inferred(Flat(Mapped(Using(name, analyses), LAMBDA a : a.ipc)))

\* Mutant: what is not known to send counts as both.
CautiousRole(a) == IF Direction(Exists(a.ipc, Sends), Exists(a.ipc, Receives)) = "producer" THEN "producer" ELSE "both"

\* A file without IPC calls of its own counts as both, so that it is not lost.
FileRole(a) ==
  LET direction == Direction(Exists(a.ipc, Sends), Exists(a.ipc, Receives))
  IN  IF direction = "unknown" THEN "both" ELSE direction

computeFileRoles(name, analyses) ==
  [f \in {a.filename : a \in ToSet(Using(name, analyses))} |->
     FileRole(The(First(analyses, LAMBDA a : a.filename = f)))]

Message(name, struct, found, roles) ==
  [name |-> name, struct |-> struct, direction |-> found.direction, confident |-> found.confident,
   transport |-> found.transport, roles |-> roles]

Mentioned(name, struct, analyses) ==
  Message(name, struct, inferDirection(name, analyses), computeFileRoles(name, analyses))

(***************************************************************************)
(* Names found at calls                                                    *)
(***************************************************************************)
AllCalls(analyses) ==
  Flat(Mapped(analyses, LAMBDA a : Mapped(a.ipc, LAMBDA c : [file |-> a.filename, call |-> c])))

Passed(c) == c.call.constants \cup c.call.missing
Implies(c) == c.call.implied

Produces(c) == c.call.direction \in {"send", "bidirectional", "control"}
Consumes(c) == c.call.direction \in {"recv", "bidirectional"}

CallRole(c) ==
  CASE c.call.direction \in {"send", "control"} -> "producer" [] c.call.direction = "recv" -> "consumer" [] OTHER -> "both"

FirstCall(calls) == calls[The(Foremost(DOMAIN calls))]

\* The role of a file is that of its first call.
RolesAt(calls) ==
  [f \in {c.file : c \in ToSet(calls)} |-> CallRole(FirstCall(Where(calls, LAMBDA c : c.file = f)))]

FoundAt(calls) ==
  [direction |-> Direction(Exists(calls, Produces), Exists(calls, Consumes)),
   confident |-> DOMAIN calls # {}, transport |-> FirstCall(calls).call.type]

\* A message whose direction is not known learns it from the calls it is
\* passed to, and the roles of files that had none.
Augmented(m, analyses) ==
  LET calls == Where(AllCalls(analyses), LAMBDA c : m.name \in Passed(c))
      roles == RolesAt(calls)
  IN  IF m.confident \/ DOMAIN calls = {} THEN m
      ELSE [m EXCEPT !.direction = FoundAt(calls).direction, !.confident = TRUE,
                     !.transport = IF @ = Nothing THEN FoundAt(calls).transport ELSE @,
                     !.roles = [f \in DOMAIN @ \cup DOMAIN roles |-> IF f \in DOMAIN @ THEN @[f] ELSE roles[f]]]

\* The dictionary d is that of the headers; what the sources define is not
\* known to it yet when the calls are read, and joins it afterwards.
extractMessageInterfaces(analyses, d) ==
  LET defines == d.defines \cup UNION {a.defines : a \in ToSet(analyses)}
      calls == AllCalls(analyses)
      names == UNION {Passed(c) : c \in ToSet(calls)}
      defined == defines \cap MsgConstants
      chosen == (ChosenStructs \cap d.structs) \ defined
      passed == names \ (defined \cup chosen)
      implied == ((UNION {Implies(c) : c \in ToSet(calls)}) \cap d.structs) \ (defined \cup chosen \cup passed)
      At(name, struct, Of(_)) ==
        LET sites == Where(calls, LAMBDA c : name \in Of(c))
        IN  Message(name, struct, FoundAt(sites), RolesAt(sites))
      Known(n) == n \in d.defines \cup d.enumerated
  IN  {Augmented(Mentioned(n, resolveStruct(n, d), analyses), analyses) : n \in defined}
        \cup {Augmented(Mentioned(n, n, analyses), analyses) : n \in chosen}
        \cup {At(n, IF Known(n) THEN resolveStruct(n, d) ELSE Nothing, Passed) : n \in passed}
        \cup {At(n, n, Implies) : n \in implied}
=============================================================================
