--------------------------- MODULE MCProviderStream ---------------------------
(* Payloads for ProviderStream: texts, calls in pieces, and what goes wrong. *)
EXTENDS ProviderStream

Call(index, id, name, args) ==
  [kind |-> "call", index |-> index, id |-> id, name |-> name, args |-> args]

MCPayloads ==
  {Text("a"), Plain("malformed"), Plain("crashing"), Plain("done"), Plain("nothing"),
   Call(0, "id", "name", ""), Call(0, "id", "more", "{"), Call(0, "", "", "}"),
   Call(1, "more", "name", "")}
=============================================================================
