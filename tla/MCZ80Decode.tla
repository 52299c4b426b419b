---------------------------- MODULE MCZ80Decode ----------------------------
(***************************************************************************)
(* Z80Decode with every byte behind every prefix and a chain of two, some  *)
(* behind other chains, and two memories of nothing but prefixes.          *)
(***************************************************************************)
EXTENDS Z80Decode

Prefixes ==
  {<<>>, <<CB>>, <<ED>>, <<DD>>, <<FD>>, <<FD, DD>>,
   <<DD, CB, 5>>, <<FD, DD, CB, 5>>}

\* Three zeros follow, as operands and as NOPs.
CodeOf(bytes) == [a \in 0 .. (Len(bytes) - 1) |-> bytes[a + 1]]

MCCodes ==
  {CodeOf(p \o <<op, 0, 0, 0>>) : p \in Prefixes, op \in Opcode}
  \cup {CodeOf(p \o <<op, 0, 0, 0>>) :
          p \in {<<DD, FD>>, <<FD, CB, 5>>, <<FD, DD, FD>>}, op \in {9, 52, 102, 227}}
  \cup {CodeOf(<<DD, ED>>), CodeOf(<<FD, DD, FD>>)}

MCRefresh == {255}
=============================================================================
