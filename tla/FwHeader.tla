------------------------------ MODULE FwHeader ------------------------------
(***************************************************************************)
(* The framework header X-Fw-Header of internal/header/header.go: a list   *)
(* of K=V items that Parse turns into a map and Serialize back into a      *)
(* string.  Three items matter: TCID, the correlation id; TCIDSRNO, the    *)
(* hop number; BizSrvcCd, the code of the calling service.  BizSrvcIp goes *)
(* with BizSrvcCd and other items are passed on untouched.                 *)
(*                                                                         *)
(* A correlation id is a pair of the request it was made for and the place *)
(* that made it; generateTCID ends in eight random characters, so no two   *)
(* calls return the same id.                                               *)
(***************************************************************************)
EXTENDS Naturals

CONSTANTS Requests,    \* the requests that ids are made for
          GatewayCode, \* FW_BIZ_CODE, the gateway's own service code
          CallerCodes  \* service codes of callers

Makers == {"caller", "trace", "merged", "upstream"}

(* An absent item: Serialize leaves out what is empty, Parse returns "". *)
NoTcid == <<>>
NoCode == "none"

Tcid == Requests \X Makers
Code == CallerCodes \cup {GatewayCode, "SMP", NoCode}
FwHeader == [tcid : Tcid \cup {NoTcid}, srno : Nat, code : Code]

(* A message without the header. *)
NoHeader == [tcid |-> NoTcid, srno |-> 0, code |-> NoCode]

(* Both overwrite the caller's TCID, whatever their names say: of the      *)
(* three items nothing of the header h that came in is left.               *)
ApplyServerSideFields(h, code, id) ==
    [tcid |-> id, srno |-> 1, code |-> code]

ApplyServerSideFieldsPreserveTCID(h, code, id) ==
    [tcid |-> id, srno |-> 1, code |-> code]

EnsureTCIDForRequest(h, code, id) ==
    ApplyServerSideFieldsPreserveTCID(h, code, id)

(* The hop number is incremented where the string has "TCIDSRNO=" before   *)
(* it.                                                                     *)
BumpTCIDSRNO(h) == IF h.srno = 0 THEN h ELSE [h EXCEPT !.srno = @ + 1]

(* The same function called with the bare number, which has no such        *)
(* prefix: the number comes back unchanged.                                *)
BumpBareNumber(srno) == srno

=============================================================================
