--------------------------- MODULE MCSupersession ---------------------------
(* Instance of Supersession for TLC: a company z whose chief is i, then pr,*)
(* then i again (with the sentence of the first time), and an event.       *)
EXTENDS Supersession

CONSTANTS p1, p2, p3, e1, e2, e3, v, i, pr, z, s1, s2, sv, chief

MCPayloadOf == [e \in Edges |-> IF e = e1 THEN p1 ELSE IF e = e2 THEN p2 ELSE p3]
MCSrc  == [e \in Edges |-> IF e = e2 THEN pr ELSE i]
MCTgt  == [e \in Edges |-> z]
MCText == [e \in Edges |-> IF e = e2 THEN s2 ELSE IF e = v THEN sv ELSE s1]
MCFactTexts == [p \in Payloads |-> {MCText[e] : e \in {d \in Edges : MCPayloadOf[d] = p}}]
MCConflicts == {<<e1, e2>>, <<e2, e1>>, <<e2, e3>>, <<e3, e2>>} \cap (Edges \X Edges)
MCDescribes ==
    [p \in Payloads |-> [x \in Entities |->
        IF <<p, x>> \in {<<p1, i>>, <<p2, pr>>, <<p3, z>>} THEN chief ELSE NoRole]]
MCRolesIn == [t \in {s1, s2, sv} |-> IF t = sv THEN {} ELSE {chief}]
=============================================================================
