--------------------------- MODULE DocumentedApi ----------------------------
(***************************************************************************)
(* What the comments of pkg/openapi and openapi/schema.yaml say of the     *)
(* handlers, where the handlers do something else: each property here is   *)
(* checked by a run of its own, and TLC finds a behaviour that breaks it.  *)
(***************************************************************************)
EXTENDS SampleApi

\* A comment on a post that does not exist is answered 404: CreateComment takes
\* the foreign-key error for one that isUniqueViolation recognises.
CommentOnMissingPostIs404 ==
    [][\A c \in Clients :
          /\ CreateComment(c)
          /\ req[c].call.caller \in LiveIds(users)
          /\ req[c].call.post \notin LiveIds(posts)
          => req'[c].status = 404]_vars

\* ListComments looks the post up first, so as to tell a missing post from a
\* post without comments: a list is of a post that is there when it is read.
ListedPostExists ==
    [][\A c \in Clients :
          ListComments(c) /\ req'[c].stage = "count" => req[c].call.post \in LiveIds(posts)]_vars

\* The total of a list counts the items of all its pages, those of the page it
\* comes with included.
TotalCountsThePage ==
    \A c \in Clients :
       /\ req[c].stage = "done" /\ req[c].status = 200
       /\ req[c].call \in OpCalls /\ req[c].call.op \in ListOps
       => req[c].total >= Cardinality(req[c].rows)

\* Every password the schema admits can be given to a user: hashing it is no
\* server error.
AdmittedPasswordIsHashed ==
    [][\A c \in Clients :
          CreateUserRole(c) \/ ReplaceUserRole(c) => req'[c].status # 500]_vars
=============================================================================
