---------------------------- MODULE MCDirectory -----------------------------
(* Small instances of Directory: a few callers at a time, two requests. *)
EXTENDS Directory, TLC

SmallWorkloads ==
  { {"console", "import"}, {"console", "export"}, {"scoped", "console"},
    {"passwords"}, {"scim", "sessions", "import"}, {"scim", "groups", "console"},
    {"platform", "console"} }

\* The third user is there for exports: two pages of one user are the cap.
SmallTenant ==
  "export" \in callers \/ (/\ user[Users].status = "none"
                          /\ \A p \in Proc : req[p].u # Users /\ Users \notin req[p].set)

Symmetry == Permutations(Proc)
=============================================================================
