------------------------------ MODULE MCInputs ------------------------------
(***************************************************************************)
(* The readers of what comes from outside, side by side for TLC: Config    *)
(* for the configuration, Multipart for a form that the server takes, Cgi  *)
(* for a request to the CGI program, SignIn for the users file and what is *)
(* compared with it, and RequestHead for the head of a request.            *)
(*                                                                         *)
(* They share nothing. In a behaviour one of them reads, and the others    *)
(* stay where they begin.                                                  *)
(***************************************************************************)
EXTENDS MCConfig, Multipart, MCMultipart, Cgi, MCCgi, SignIn, MCSignIn, RequestHead,
        MCRequestHead

VARIABLE reading  \* the module whose behaviour it is

\* The forms are long enough to be read, and the sound ones are sound.
ASSUME FormsAssumption == FormsAreLegible /\ FormsAreSound

InputsInit ==
  /\ reading \in {"Config", "Multipart", "Cgi", "SignIn", "RequestHead"}
  /\ IF reading = "Config" THEN Init ELSE file = NoFile /\ given = TRUE /\ Start
  /\ IF reading = "Multipart" THEN FormInit ELSE form = OneForm /\ FormStart
  /\ IF reading = "Cgi" THEN CgiInit ELSE req = OneRequest /\ CgiStart
  /\ IF reading = "SignIn" THEN SignInInit ELSE users_file = NULL /\ reader = "server" /\ SignInStart
  /\ IF reading = "RequestHead" THEN HeadInit ELSE request = OneHead /\ HeadStart

inputs == <<reading, vars, form_vars, cgi_vars, sign_in_vars, head_vars>>

\* What the clients do: another piece of a head, a form or a cookie.
Send ==
  /\ reading = "RequestHead" /\ Receive
  /\ UNCHANGED <<reading, vars, form_vars, cgi_vars, sign_in_vars>>

Ask ==
  /\ reading = "SignIn" /\ (ProcessLogin \/ ReadCookie)
  /\ UNCHANGED <<reading, vars, form_vars, cgi_vars, head_vars>>

ReadFile ==
  /\ reading = "Config" /\ Next
  /\ UNCHANGED <<reading, form_vars, cgi_vars, sign_in_vars, head_vars>>

ReadForm ==
  /\ reading = "Multipart" /\ FormNext
  /\ UNCHANGED <<reading, vars, cgi_vars, sign_in_vars, head_vars>>

ServeRequest ==
  /\ reading = "Cgi" /\ CgiNext
  /\ UNCHANGED <<reading, vars, form_vars, sign_in_vars, head_vars>>

ReadUsers ==
  /\ reading = "SignIn" /\ StartUp
  /\ UNCHANGED <<reading, vars, form_vars, cgi_vars, head_vars>>

ReadHead ==
  /\ reading = "RequestHead" /\ HeadRoutine
  /\ UNCHANGED <<reading, vars, form_vars, cgi_vars, sign_in_vars>>

Read == ReadFile \/ ReadForm \/ ServeRequest \/ ReadUsers \/ ReadHead

InputsNext == Send \/ Ask \/ Read

\* The parser of forms and Auth::Init are each a loop in one call, which
\* nothing but its end stops.
InputsSpec ==
  /\ InputsInit /\ [][InputsNext]_inputs
  /\ WF_inputs(ReadForm) /\ WF_inputs(ReadUsers)

-----------------------------------------------------------------------------
\* The parser of forms returns, although it looks at some bytes more than
\* once, and the program starts up or refuses to, whatever the users file
\* holds: neither goes round in circles or stops half-way. A word that does not
\* fit its buffer ends Auth::Init for the model, too.
ReadersReturn ==
  []<>(/\ reading = "Multipart" => returned
       /\ reading = "SignIn" =>
            step \notin {"tokens", "open", "line", "login", "password"})

=============================================================================
