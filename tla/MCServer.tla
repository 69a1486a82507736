------------------------------ MODULE MCServer ------------------------------
(* One request out of six kinds, as handlers share nothing, and a            *)
(* configuration of two deployments, valid or not.                           *)
EXTENDS Server

CONSTANTS r1, w, j, web, job, s1, s2

Claims(ref) == [scope |-> 1, workflow |-> w, job |-> ref]
Post(token, content, ref) ==
  [method |-> "POST", token |-> token, body |-> content, name |-> web, claims |-> Claims(ref)]

MCInput ==
  {Post("good", "good", None), Post("good", "good", j), Post("good", "bad", w),
   Post("young", "good", w), Post("none", "good", w), [Post("good", "good", w) EXCEPT !.method = "GET"]}

MCSetting == {w, j, web, job, s1, s2, 1, 2}

Deployment(name, service, ref, scope) ==
  [name |-> name, service |-> service, workflow |-> w, job |-> ref, scope |-> scope]

MCConfiguration ==
  [job : {None, j},
   deployments : {<<Deployment(web, s1, ref, scope), other>> :
                    ref \in {None, j, w}, scope \in {1, 2},
                    other \in {Deployment(job, s2, None, 1), Deployment(web, s2, j, 1)}}]
=============================================================================
