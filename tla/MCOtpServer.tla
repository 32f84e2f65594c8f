---------------------------- MODULE MCOtpServer ----------------------------
(* Three clients of the daemon: two posts and a get, a post and two gets, posts  *)
(* to two users, and the requests that store nothing beside one that does.  The  *)
(* descriptors run out in some of them, and one has a child that is stopped.     *)
EXTENDS OtpServer, TLC

CONSTANTS a, b, c, u, v

On(o, w) == [op |-> o, user |-> w]
World(x, y, z, s, n, k) ==
    [request |-> (a :> x) @@ (b :> y) @@ (c :> z), begin |-> s, fdlimit |-> n, stops |-> k]
\* Time passes only where two messages wait in one mailbox.
MCScenarios == {World(On("POST", u), On("POST", u), On("GET", u), 1, 3, 0),
                World(On("POST", u), On("GET", u), On("GET", u), 2, 3, 0),
                World(On("POST", u), On("POST", v), On("GET", u), 2, 3, 0),
                World(On("BAD", u), On("ERROR", u), On("POST", u), 2, 2, 1)}
=============================================================================
