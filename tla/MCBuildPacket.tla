----------------------------- MODULE MCBuildPacket -----------------------------
(* BuildPacket with bytes, files and a checksum for TLC.                       *)
EXTENDS BuildPacket

\* Tells apart what a packet may hold here: its length, order and values.
Checksum(bytes) ==
  << Len(bytes) % 256, FoldLeft(LAMBDA sum, byte : (3 * sum + byte) % 251, 1, bytes), 77, 0 >>

ThreeFiles   == { << 7, 200, 1 >>, << 200 >>, << >> }
OneMore      == { << 9 >> }
OneCmdLine   == { << 129 >> }
================================================================================
