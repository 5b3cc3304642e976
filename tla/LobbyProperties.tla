-------------------------- MODULE LobbyProperties --------------------------
(***************************************************************************)
(* What the coordinator of Lobby promises.                                 *)
(***************************************************************************)
EXTENDS Lobby

Games      == {{one, two} : one, two \in SessionIds}
Session    == [identity : Identities, playing : Games \cup {NoGame}, idle : BOOLEAN]
Connection == [identity : Identities, owes : BOOLEAN, told : BOOLEAN, open : BOOLEAN]
Bridge     == [preset : Presets, phase : {"handshake", "login", "in"},
               session : SessionIds \cup {NoSession}, asked : BOOLEAN]

\* A map from some of the keys to the values.
IsMap(f, keys, values) == DOMAIN f \subseteq keys /\ \A k \in DOMAIN f : f[k] \in values

\* The variables hold what the coordinator's types let them hold.
TypeOK ==
    /\ IsMap(sessions, SessionIds, Session)
    /\ IsMap(byIdentity, Identities, SessionIds)
    /\ pool \in Seq(SessionIds)
    /\ presetGame \in Games \cup {NoGame}
    /\ due \in 0..IF IdleDelay < Interval THEN Interval ELSE IdleDelay
    /\ busy \in BOOLEAN
    /\ IsMap(running, Presets, BridgeIds)
    /\ restarts \subseteq Residents
    /\ IsMap(bridges, BridgeIds, Bridge)
    /\ IsMap(conns, SessionIds, Connection)

\* One token is one session: the two tables of the registry say the same, however
\* the logins of a token and the Gone of the session it replaces are interleaved.
RegistryAgrees ==
    /\ \A s \in DOMAIN sessions :
         /\ sessions[s].identity \in DOMAIN byIdentity
         /\ byIdentity[sessions[s].identity] = s
    /\ \A i \in DOMAIN byIdentity :
         byIdentity[i] \in DOMAIN sessions /\ sessions[byIdentity[i]].identity = i

\* The pool holds sessions that are logged in and in no game, each of them once.
PoolIsWaiting ==
    /\ \A s \in Range(pool) : s \in DOMAIN sessions /\ ~InGame(s)
    /\ \A j, k \in DOMAIN pool : pool[j] = pool[k] => j = k

\* Why a session left the registry: its own connection ended, or a login of the
\* same token that was accepted took its place, in a game only from a player who
\* has been silent for a day.
Excused(s) ==
    \/ requests # <<>> /\ Head(requests) = From("Gone", s)
    \/ /\ \E t \in DOMAIN sessions' \ DOMAIN sessions :
             sessions'[t].identity = sessions[s].identity
       /\ InGame(s) => sessions[s].idle

\* A login that is turned down leaves the session that holds the token alone, and
\* one that is accepted does not take a player from its game.
SessionsAreProtected ==
    [][\A s \in DOMAIN sessions \ DOMAIN sessions' : Excused(s)]_vars

PresetsPlaying == {p \in Presets : \E s \in SessionOf(p) : InGame(s)}

\* However slots are paid, when a process starts or when a pairing is made, no
\* more than two presets play at once.
CapHolds == Cardinality(PresetsPlaying) <= MaxPlaying

\* The sessions whose process is asked to stop.
Leaving == {bridges[b].session : b \in {b \in DOMAIN bridges : bridges[b].asked}}

\* A process asked to stop is not in a game (server.rs round_due: "never stopped out
\* from under its own game").  Not kept: a round pairs what ready() has just stopped.
StoppedIsIdle == \A s \in Leaving \cap DOMAIN sessions : ~InGame(s)

\* What the code does keep: nobody in a game once a step is done is asked to stop by
\* it, neither by the round that has just paired it nor by the Ready of another.
NoPlayerIsStopped ==
    [][\A b \in DOMAIN bridges \cap DOMAIN bridges' :
         bridges'[b].asked /\ ~bridges[b].asked /\ bridges'[b].session \in DOMAIN sessions'
           => sessions'[bridges'[b].session].playing = NoGame]_vars

\* The end of the last game can bring the next round closer, never put it off.
NoRoundPutOff == [][due' > due => due = 0]_vars

Processes(p) == {b \in DOMAIN bridges : bridges[b].preset = p}

\* One preset is one process.  Not kept by residents, see OnDemandIsSingle.
OneInstance == \A p \in Presets : Cardinality(Processes(p)) <= 1

OnDemand == {p \in Presets : Kinds[p] = "OnDemand"}

\* An on-demand preset is never started twice, although its process is struck from
\* the supervisor's book when it is asked to stop, and lives on until it has: the
\* session it leaves in the registry keeps a round from starting the next.
OnDemandIsSingle == \A p \in OnDemand : Cardinality(Processes(p)) <= 1

\* A resident is up, or waits out the backoff of a process that ended.
ResidentStays == \A p \in Residents : p \in DOMAIN running \/ p \in restarts

\* An engine from outside left alone in the pool plays in the end, and with somebody
\* who is not about to leave: a preset is started for it, and a game between two
\* presets gives way to it.
LeftoverPlays ==
    \A x \in Externals :
        (\E s \in SessionOf(x) : s \in Range(pool))
          ~> (\E s \in SessionOf(x) : InGame(s) /\ sessions[s].playing \cap Leaving = {})
=============================================================================
