---------------------------- MODULE MCSampleApi -----------------------------
(***************************************************************************)
(* Small instances of SampleApi for TLC: the values of the constants the   *)
(* cfg files refer to.                                                     *)
(***************************************************************************)
EXTENDS DocumentedApi, TLC

CONSTANTS u1, u2, e1, e2, pw, sA, sB, c1, c2

AccountOps == {"Login", "CreateUser", "UpdateUser", "ReplaceUser", "DeleteUser"}
ContentOps == {"CreatePost", "ReplacePost", "DeletePost", "CreateComment",
               "UpdateComment", "DeleteComment", "DeleteUser"}
ReadingOps == {"ListPosts", "GetPost", "ListComments",
               "CreatePost", "CreateComment", "DeletePost"}

\* The operations of several statements, and those that take their rows away.
LongOps == {"ListUsers", "GetUser", "CreateUser", "UpdateUser", "ReplaceUser",
            "DeleteUser", "ListComments", "CreatePost", "DeletePost"}

\* The operations of the runs that check the documentation.
CommentingOps == {"CreatePost", "DeletePost", "CreateComment"}
CommentListOps == {"CreatePost", "DeletePost", "ListComments"}
PostListOps == {"CreatePost", "DeletePost", "ListPosts"}
PasswordOps == {"CreateUser", "ReplaceUser"}

\* The users the migration made: one, or two to own the content.
Account(e) == [email |-> e, hash |-> [password |-> pw, salt |-> sA],
               salt |-> sA, role |-> "admin"]
OneSeed == u1 :> Account(e1)
TwoSeeds == (u1 :> Account(e1)) @@ (u2 :> Account(e2))

\* No ?page and no ?per_page.
Defaults == {None}
\* The first page and, at MaxInt = 7, one whose offset overflows with pages of 2.
FirstOrFar == {None, 6}
\* Pages of one row, the default of the instance, or of two.
OneOrTwo == {None, 2}

ClientSymmetry == Permutations({c1, c2})
=============================================================================
