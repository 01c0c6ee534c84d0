--------------------------- MODULE ProfileSignIn ---------------------------
(* What a profile's sign-in is to its user, with no process, lock or file   *)
(* in it: a login starts a line of token pairs, each renewed by a later one *)
(* of the same line. A line that was lost, logged out or replaced by a new  *)
(* login never comes back; only another login ends being signed out.        *)
EXTENDS Naturals

VARIABLES
  pair,     \* the pair that would be renewed next, 0 when there is none
  line,     \* the first pair of its line, 0 when there is none
  loginRan, \* a login has just stored its pair
  out       \* the user logged out and has not logged in since

profile == <<pair, line, loginRan, out>>

ProfileInit == pair = line /\ loginRan = FALSE /\ out = (pair = 0)

Login ==
  /\ ~loginRan /\ loginRan' /\ pair' # 0 /\ line' = pair' /\ line' # line /\ ~out'

LoginReturns == loginRan /\ ~loginRan' /\ UNCHANGED <<pair, line, out>>

Renew == pair # 0 /\ pair' > pair /\ UNCHANGED <<line, loginRan, out>>

Lose == pair' = 0 /\ line' = 0 /\ UNCHANGED <<loginRan, out>>

Logout == pair' = 0 /\ line' = 0 /\ out' /\ UNCHANGED loginRan

ProfileNext == Login \/ LoginReturns \/ Renew \/ Lose \/ Logout

Profile == ProfileInit /\ [][ProfileNext]_profile
============================================================================
