------------------------------ MODULE Settings ------------------------------
(***************************************************************************)
(* Where a connection's settings come from: the flags and variables of the *)
(* boot (Parse), the arguments of remote_connect under any of their names, *)
(* and ~/.ssh/config (ResolveHostConfig).  A value is named for its        *)
(* origin: "" is none, the name of a Host block is what that block says.   *)
(***************************************************************************)
EXTENDS Naturals, Sequences, FiniteSetsExt

CONSTANT Usage   \* no configuration: the usage is printed and the program ends

-----------------------------------------------------------------------------
(* The arguments of a tool: a function from the names present to values *)

\* getParamString: the first of the names with a value that is not empty.
ParamString(args, names) ==
    LET at == {i \in DOMAIN names : names[i] \in DOMAIN args /\ args[names[i]] # ""}
    IN  IF at = {} THEN "" ELSE args[names[Min(at)]]

\* Mutant of ParamInt: only the first name is looked at.
ParamIntFirst(args, default, names) ==
    IF names[1] \in DOMAIN args THEN args[names[1]] ELSE default

\* getParamInt: the first name present, whatever its value.
ParamInt(args, default, names) ==
    LET at == {i \in DOMAIN names : names[i] \in DOMAIN args}
    IN  IF at = {} THEN default ELSE args[names[Min(at)]]

-----------------------------------------------------------------------------
(* ResolveHostConfig *)

Or(x, y) == IF x # "" THEN x ELSE y

\* Mutant of Resolve: what the file says of the user comes first.
ResolveFileFirst(c, file, env) ==
    LET host == Or(file[c.host].HostName, c.host)
        own  == Or(c.key, file[host].IdentityFile)
    IN  [host |-> host,
         user |-> Or(file[host].User, Or(c.user, Or(env.USER, "root"))),
         port |-> Or(c.port, Or(file[host].Port, "22")),
         password |-> c.password,
         key  |-> IF own = "" /\ c.password = "" /\ env.agent = "" THEN env.key ELSE own]

\* file is empty where it cannot be opened or decoded.  The alias gives way to
\* its HostName before the other keys are looked up.
Resolve(c, file, env) ==
    LET host == Or(file[c.host].HostName, c.host)
        own  == Or(c.key, file[host].IdentityFile)
    IN  [host |-> host,
         user |-> Or(c.user, Or(file[host].User, Or(env.USER, "root"))),
         port |-> Or(c.port, Or(file[host].Port, "22")),
         password |-> c.password,
         key  |-> IF own = "" /\ c.password = "" /\ env.agent = "" THEN env.key ELSE own]

-----------------------------------------------------------------------------
(* The two ways to a configuration *)

\* The names that are registered: no short ones.
LongFlags == {"host", "user", "port", "key", "password"}

\* A flag that is not given has its default.
Flag(flags, name, default) == IF name \in DOMAIN flags THEN flags[name] ELSE default

\* The defaults are variables of the environment, but for the port's, which is
\* none.  Where there is no host, the first argument is "user@host".
Parse(flags, argument, env) ==
    LET host == Flag(flags, "host", env.SSH_HOST)
        user == Flag(flags, "user", env.SSH_USER)
    IN  [host |-> Or(host, argument.host),
         user |-> IF host = "" THEN Or(user, argument.user) ELSE user,
         port |-> Flag(flags, "port", ""),
         key  |-> Flag(flags, "key", env.SSH_KEY),
         password |-> Flag(flags, "password", env.SSH_PASSWORD)]

\* A name that is not registered ends the program.
Boot(flags, argument, file, env) ==
    IF ~(DOMAIN flags \subseteq LongFlags) THEN Usage
    ELSE LET c == Parse(flags, argument, env)
         IN  IF c.host = "" THEN c ELSE Resolve(c, file, env)

\* The handler of remote_connect and the configuration ConnectTo makes of it.
RemoteConnect(args, file, env) ==
    Resolve([host |-> ParamString(args, <<"host", "Host">>),
             user |-> ParamString(args, <<"user", "User">>),
             port |-> ParamInt(args, "22", <<"port", "Port">>),
             key  |-> ParamString(args, <<"keyPath", "KeyPath", "key_path">>),
             password |-> ParamString(args, <<"password", "Password">>)], file, env)
=============================================================================
