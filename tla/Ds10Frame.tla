----------------------------- MODULE Ds10Frame -----------------------------
(***************************************************************************)
(* The message on every topic (ds10_interfaces/Frame.msg), its data seen   *)
(* as Transaction's parsers see it: txn and dst (each {} or a singleton)   *)
(* and the payload behind the header.  The field id is auxiliary: the      *)
(* transaction a frame was made for; no guard reads it.                    *)
(***************************************************************************)
EXTENDS Transaction

CONSTANTS TxnMod,    \* transaction numbers wrap at this value, 65536 in the code
          Payloads,  \* the payloads in use
          Size       \* their sizes in bytes

ASSUME FrameParameters == TxnMod \in Nat \ {0} /\ Size \in [Payloads -> Nat]

Txn == 0..TxnMod - 1
Station == kMinStation..kMaxStation

Frame == [station : Byte, txn : Optional(Txn), dst : Optional(Byte),
          body : Payloads, id : Nat]

DataLen(m) ==
    Size[m.body] + (IF m.txn = {} THEN 0 ELSE IF m.dst = {} THEN kHeaderLen ELSE kReplyHeaderLen)
=============================================================================
