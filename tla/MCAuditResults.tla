--------------------------- MODULE MCAuditResults ---------------------------
EXTENDS AuditResultExpectations

Pc(d, t)       == [id |-> d, text |-> t]
Check(d, t, s) == [id |-> d, text |-> t, pcs |-> s]
Rq(k, n, t, b, s) == [key |-> k, name |-> [title |-> n, reference |-> ""], text |-> t,
                      info |-> b, checks |-> s]

u1 == <<Pc("p1", "u")>>
uv == <<Pc("p1", "u"), Pc("p2", "v")>>

(* a: a check gets a new id, then the requirement goes;
   b: a new key and other infoBlocks, then another text, its criteria change places, and one
      is new;
   e: comes last. *)
First  == <<Rq("a", "A", 1, 1, <<Check("c1", "x", u1), Check("c2", "y", u1)>>),
            Rq("b", "B", 1, 1, <<Check("c1", "x", uv)>>)>>
Second == <<Rq("a", "A", 1, 1, <<Check("c2", "x", u1), Check("c3", "y", u1)>>),
            Rq("d", "B", 1, 2, <<Check("c1", "x", uv)>>)>>
Third  == <<Rq("d", "B", 2, 2, <<Check("c1", "x", <<Pc("p1", "v"), Pc("p2", "u"), Pc("p3", "w")>>)>>),
            Rq("e", "E", 1, 1, <<Check("c1", "z", u1)>>)>>

Versions == [f \in 1..3 |-> CASE f = 1 -> First [] f = 2 -> Second [] f = 3 -> Third]

(* The second requirement takes the name of the first, which goes. *)
Takeover ==
    <<<<Rq("a", "A", 1, 1, <<Check("c1", "x", u1)>>), Rq("b", "B", 1, 1, <<Check("c1", "x", u1)>>)>>,
      <<Rq("b", "A", 1, 1, <<Check("c1", "x", u1)>>)>>>>

(* The texts in infoBlocks are edited, and nothing else. *)
Rewritten ==
    <<<<Rq("a", "A", 1, 1, <<Check("c1", "x", u1)>>)>>, <<Rq("a", "A", 1, 2, <<Check("c1", "x", u1)>>)>>>>

(* A check loses its only criterion. *)
EmptyCheck ==
    <<<<Rq("a", "A", 1, 1, <<Check("c1", "x", u1)>>)>>, <<Rq("a", "A", 1, 1, <<Check("c1", "x", <<>>)>>)>>>>
=============================================================================
