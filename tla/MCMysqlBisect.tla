--------------------------- MODULE MCMysqlBisect ----------------------------
(* Small instances of MysqlBisect for TLC. *)
EXTENDS MysqlBisect, TLC

CONSTANTS q1, q2, q3, s1, s2

TwoSamples == s1 :> {q1} @@ s2 :> {q2, q3}
OnePattern == q1 :> {1, 2} @@ q2 :> {1} @@ q3 :> {2}

\* Buggy from the newest commit back to one; the same with a crash at the
\* commit examined first; and every behaviour of the commits between the two ends.
Turn(k) == [c \in Positions |-> IF c < k THEN "differ" ELSE "agree"]
Turns   == {Turn(k) : k \in 0..NumCommits}
Crashes == {[Turn(k) EXCEPT ![2] = "crash"] : k \in {1, 5}}
AnyRows == {[h EXCEPT ![Newest] = "differ", ![Oldest] = "agree"] :
              h \in [Positions -> Behaviour \ {"error"}]}

Complete == [c \in Positions |-> "complete"]
OneIs(s) == {[Complete EXCEPT ![c] = i] : c \in Positions, i \in s}

Reports(first, second, third) ==
  {q1 :> f @@ q2 :> s @@ q3 :> t : f \in first, s \in second, t \in third}

Circumstances(histories, installs, timely) ==
  [history : histories, install : installs, timely : {timely}, nonDeter : BOOLEAN]

\* Servers in time: every history of one select beside two that may accuse the
\* same commit; and a commit without binaries or without a directory.  Servers
\* that are late: fewer histories, every order of the servers' steps.
Mixed ==
       Circumstances(Reports(AnyRows, {Turn(k) : k \in {0, 2, 3}}, {Turn(2)}),
                     {Complete}, TRUE)
  \cup Circumstances(Reports(Turns, {Turn(2)}, {Turn(3)}), OneIs({"empty", "absent"}), TRUE)
  \cup Circumstances(Reports(Crashes \cup {Turn(3)}, {Turn(2)}, {Turn(3)}), {Complete}, FALSE)
=============================================================================
