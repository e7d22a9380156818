-------------------------- MODULE MCHttpTransferSource --------------------------
(* HttpTransferSource for TLC. *)
EXTENDS HttpTransferSource

Object(p, properties) == [packet |-> p, names |-> properties]
WholeObject(p) ==
  Object(p, << "type", "timestamp", "payload", "spacecraftId", "radioId" >>)

\* Every packet as a whole, the second telecommand also without its payload, or
\* without its timestamp and in another order.
SomeObjects ==
  { WholeObject(p) : p \in Packets } \cup
  { Object(2, << "timestamp", "spacecraftId", "type" >>),
    Object(2, << "spacecraftId", "payload", "type" >>) }

\* The payload of the first telecommand is well formed, the other two are not.
SomeBytes    == << 2, 1, 2 >>
SomePrefixed == {1}

\* Telecommands of two and of three bytes, and nothing is lacking.
PlainObjects ==
  { Object(p, << "type", "timestamp", "payload", "spacecraftId" >>) : p \in Packets }
MoreBytes    == << 2, 3, 2 >>
================================================================================
