------------------------------ MODULE ApiTable ------------------------------
(***************************************************************************)
(* The vocabulary in which the request tables are written.  Nearly every   *)
(* method of the library sends one request for one object and turns the    *)
(* reply into data, a task or further handles.  A row says on which kind of *)
(* handle the method is called, which request it sends, which names it     *)
(* insists on before it sends anything, and what it makes of the reply.    *)
(* A path element ".x" is a field of the handle, "<x>" an argument of the  *)
(* call, any other element is literal.  A name that travels in the query or *)
(* the body of a request for one object is written as its last element.    *)
(***************************************************************************)
EXTENDS Sequences

\* A function of one name, and one of the names of two, as in TLC.tla, which the
\* provers do not know.
k :> v == [x \in {k} |-> v]
f @@ g == [x \in DOMAIN f \cup DOMAIN g |-> IF x \in DOMAIN f THEN f[x] ELSE g[x]]

NoName == ""       \* a field or an argument that is empty
Wired == TRUE      \* the handle gets the client of the one it came from
Unwired == FALSE   \* the handle is returned as the decoder left it
FromReply == [k \in {} |-> NoName]   \* no field is filled in by the code

\* What a method makes of a reply: form and kind of the result, the fields
\* the code fills in and from where, and how {"data":null} is taken.
Reply(form, kind, keys, wired, null) ==
    [form |-> form, kind |-> kind, keys |-> keys, wired |-> wired, null |-> null]

Nothing == Reply("nothing", "none", FromReply, Wired, "kept")
Data == Reply("data", "none", FromReply, Wired, "nil")
SomeData == Reply("data", "none", FromReply, Wired, "error")
ATask == Reply("task", "none", FromReply, Wired, "nil")
Itself == Reply("itself", "none", FromReply, Wired, "kept")
ItselfTwice == Reply("itself", "none", FromReply, Wired, "panic")

One(kind, keys, wired, null) == Reply("one", kind, keys, wired, null)
Found(kind, keys, wired) == Reply("found", kind, keys, wired, "error")

\* Mutants: the loop over a list forgets the client, or the names.
EachUnwired(kind, keys, wired) == Reply("each", kind, keys, Unwired, "empty")
EachUnnamed(kind, keys, wired) == Reply("each", kind, FromReply, wired, "empty")
Each(kind, keys, wired) == Reply("each", kind, keys, wired, "empty")

\* The request makes an object out of the caller's argument, and the argument
\* becomes its handle, whatever is replied.
Created(kind, keys) == Reply("created", kind, keys, Wired, "kept")

Call(on, op, verb, path, must, gives) ==
    [on |-> on, op |-> op, verb |-> verb, path |-> path, must |-> must,
     gives |-> gives, silent |-> FALSE, tolerant |-> FALSE]

Get(on, op, path, must, gives) == Call(on, op, "GET", path, must, gives)
Post(on, op, path, must, gives) == Call(on, op, "POST", path, must, gives)

\* Mutant: no name is insisted on.
PutUnchecked(on, op, path, must, gives) == Call(on, op, "PUT", path, {}, gives)
Put(on, op, path, must, gives) == Call(on, op, "PUT", path, must, gives)
Delete(on, op, path, must, gives) == Call(on, op, "DELETE", path, must, gives)
Dial(on, op, path) == Call(on, op, "DIAL", path, {}, Data)

\* A handle made without a request; its path is the object it stands for.
Lazy(on, op, path, must, gives) == Call(on, op, "-", path, must, gives)

\* A missing name makes the method return at once, without an error.
Silently(row) == [row EXCEPT !.silent = TRUE]

\* A reply of "not authorized" is not an error, and the handle is returned.
Tolerant(row) == [row EXCEPT !.tolerant = TRUE]
=============================================================================
