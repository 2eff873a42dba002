-------------------------- MODULE MCAgentTransaction --------------------------
(***************************************************************************)
(* The transactions the panel sends for one site: its configuration c1, a  *)
(* file c2 beside it (maintenance page, certificate), its link l1.  With   *)
(* l2, the file beside it is another site's configuration.                 *)
(***************************************************************************)
EXTENDS AgentTransaction

CONSTANTS c1, c2, l1, l2, v1, v2, bad

Plain(text) == [text |-> text, maint |-> FALSE]
Maint(text) == [text |-> text, maint |-> TRUE]

Basic == [type |-> "check", path |-> c1, to |-> Null, body |-> Null, expect |-> Null,
          follow |-> FALSE, transition |-> FALSE]

Write(p, b)     == [Basic EXCEPT !.type = "write", !.path = p, !.body = b]
Remove(p)       == [Basic EXCEPT !.type = "remove", !.path = p]
Symlink(p, to)  == [Basic EXCEPT !.type = "symlink", !.path = p, !.to = to]
Check(p, e)     == [Basic EXCEPT !.path = p, !.expect = e]
Patch(p, e, b)  == [Write(p, b) EXCEPT !.expect = e, !.follow = TRUE]
Switch(p, e, b) == [Patch(p, e, b) EXCEPT !.transition = TRUE]

Apply(changes) == [changes |-> changes, test |-> TRUE, reload |-> TRUE]

SiteRequests ==
  {Apply(<<Write(c1, Plain(v1)), Symlink(l1, c1)>>),               \* sites.Create
   Apply(<<Write(c1, Plain(v2))>>),                                \* an edit
   Apply(<<Write(c1, Plain(bad))>>),                               \* a wrong edit
   [Apply(<<Write(c2, Plain(v1))>>) EXCEPT !.reload = FALSE],      \* a page
   Apply(<<Symlink(l1, c1)>>),                                     \* sites.Enable
   Apply(<<Remove(l1)>>),                                          \* sites.Disable
   Apply(<<Remove(l1), Remove(c1)>>),                              \* sites.Delete
   Apply(<<Write(c2, Plain(v2)), Switch(l1, Plain(v1), Maint(v1))>>),     \* maintenance on
   Apply(<<Switch(l1, Maint(v1), Plain(v1))>>),                           \* and off
   Apply(<<Switch(c1, Plain(v1), Maint(v1))>>),     \* a site the panel made
   Apply(<<Check(c2, Plain(v2)), Patch(l1, Maint(v1), Maint(v2))>>)}      \* a certificate

EditRequests == {r \in SiteRequests : \A i \in DOMAIN r.changes : r.changes[i].expect = Null}
SitePatches == {<<v1, v2>>}
=============================================================================
