------------------------------- MODULE ShellProofs -------------------------------
(* Nothing but memory costs a route, a status is whole, and panels come with their   *)
(* script, for any number of refusals and status requests.                           *)
EXTENDS Shell, SequenceTheorems, TLAPS

W   == Device!Wiring
End == Len(W)

Assets == Device!ShellAssets

Names == {"/", "/shell.css", "/shell.js", "/webui.css", "/webui.js", "/themes/dark.css",
          "/themes/light.css", "/vendor/pico.min.css", "/vendor/alpine.min.js",
          "/api/status", "set_provider", "/api/reboot", "/api/ota/upload",
          "/panels.html", "/panels.js", "/api/hello", "/api/events"}

LEMMA Joined ==
  \A s, t, u \in Seq(Names) : u = s \o t =>
    /\ Len(u) = Len(s) + Len(t)
    /\ \A i \in 1 .. Len(s) : u[i] = s[i]
    /\ \A i \in 1 .. Len(t) : u[Len(s) + i] = t[i]
<1> TAKE s, t, u \in Seq(Names)
<1> HAVE u = s \o t
<1>1. Len(s) \in Nat /\ Len(t) \in Nat
  BY LenProperties
<1>2. /\ Len(u) = Len(s) + Len(t)
      /\ \A i \in 1 .. Len(s) + Len(t) : u[i] = IF i <= Len(s) THEN s[i] ELSE t[i - Len(s)]
  BY ConcatProperties
<1>4. \A i \in 1 .. Len(s) : u[i] = s[i]
  BY <1>1, <1>2
<1>5. \A i \in 1 .. Len(t) : u[Len(s) + i] = t[i]
  <2> SUFFICES ASSUME NEW i \in 1 .. Len(t) PROVE u[Len(s) + i] = t[i]
    OBVIOUS
  <2>1. Len(s) + i \in 1 .. Len(s) + Len(t) /\ ~(Len(s) + i <= Len(s)) /\ Len(s) + i - Len(s) = i
    BY <1>1
  <2> QED
    BY <1>2, <2>1
<1> QED
  BY <1>2, <1>4, <1>5

LEMMA AssetsAre ==
  /\ Assets \in Seq(Names) /\ Len(Assets) = 9
  /\ Assets[1] = "/" /\ Assets[2] = "/shell.css" /\ Assets[3] = "/shell.js"
  /\ Assets[4] = "/webui.css" /\ Assets[5] = "/webui.js" /\ Assets[6] = "/themes/dark.css"
  /\ Assets[7] = "/themes/light.css" /\ Assets[8] = "/vendor/pico.min.css"
  /\ Assets[9] = "/vendor/alpine.min.js"
BY DEF Assets, Device!ShellAssets, Names

\* What start_web_ui goes through: the assets, the example's routes, and the provider.
LEMMA WiringIs ==
  /\ W \in Seq(Names) /\ Len(W) = IF KeyParses THEN 17 ELSE 16
  /\ \A i \in 1 .. 9 : W[i] = Assets[i]
  /\ W[10] = "/api/status" /\ W[11] = "set_provider" /\ W[12] = "/api/reboot"
  /\ KeyParses => W[13] = "/api/ota/upload"
  /\ W[Len(W) - 3] = "/panels.html" /\ W[Len(W) - 2] = "/panels.js"
  /\ W[Len(W) - 1] = "/api/hello" /\ W[Len(W)] = "/api/events"
<1> DEFINE b == <<"/api/status", "set_provider", "/api/reboot">>
           c == IF KeyParses THEN <<"/api/ota/upload">> ELSE <<>>
           d == <<"/panels.html", "/panels.js", "/api/hello", "/api/events">>
<1>1. b \in Seq(Names) /\ Len(b) = 3 /\ b[1] = "/api/status" /\ b[2] = "set_provider" /\ b[3] = "/api/reboot"
  BY DEF Names
<1>2. c \in Seq(Names) /\ Len(c) = (IF KeyParses THEN 1 ELSE 0) /\ (KeyParses => c[1] = "/api/ota/upload")
  <2>1. CASE KeyParses
    BY <2>1 DEF Names
  <2>2. CASE ~KeyParses
    BY <2>2, EmptySeq
  <2> QED
    BY <2>1, <2>2
<1>3. /\ d \in Seq(Names) /\ Len(d) = 4 /\ d[1] = "/panels.html" /\ d[2] = "/panels.js"
      /\ d[3] = "/api/hello" /\ d[4] = "/api/events"
  BY DEF Names
<1>4. W = ((Assets \o b) \o c) \o d
  BY DEF W, Assets, Device!Wiring
<1> HIDE DEF b, c, d
<1> DEFINE ab == Assets \o b  abc == ab \o c
<1>5. /\ ab \in Seq(Names) /\ Len(ab) = 12
      /\ \A i \in 1 .. 9 : ab[i] = Assets[i]
      /\ \A i \in 1 .. 3 : ab[9 + i] = b[i]
  <2>1. Assets \in Seq(Names) /\ Len(Assets) = 9
    BY AssetsAre
  <2>2. ab \in Seq(Names) /\ ab = Assets \o b
    BY <1>1, <2>1, ConcatProperties
  <2> HIDE DEF ab, Assets
  <2>3. /\ Len(ab) = Len(Assets) + Len(b)
        /\ \A i \in 1 .. Len(Assets) : ab[i] = Assets[i]
        /\ \A i \in 1 .. Len(b) : ab[Len(Assets) + i] = b[i]
    BY <1>1, <2>1, <2>2, Joined, ZenonT(40)
  <2>4. Len(b) = 3 /\ Len(Assets) = 9
    BY <1>1, <2>1
  <2>5. Len(ab) = 12
    BY <2>3, <2>4
  <2>6. \A i \in 1 .. 9 : ab[i] = Assets[i]
    BY <2>3, <2>4, Zenon
  <2>7. \A i \in 1 .. 3 : ab[9 + i] = b[i]
    BY <2>3, <2>4, Zenon
  <2> QED
    BY <2>2, <2>5, <2>6, <2>7
<1> HIDE DEF ab
<1>6. /\ abc \in Seq(Names) /\ Len(abc) = 12 + Len(c)
      /\ \A i \in 1 .. 12 : abc[i] = ab[i]
      /\ KeyParses => abc[13] = c[1]
  <2>1. abc \in Seq(Names) /\ abc = ab \o c
    BY <1>2, <1>5, ConcatProperties
  <2> HIDE DEF abc
  <2>2. /\ Len(abc) = Len(ab) + Len(c)
        /\ \A i \in 1 .. Len(ab) : abc[i] = ab[i]
        /\ \A i \in 1 .. Len(c) : abc[Len(ab) + i] = c[i]
    BY <1>2, <1>5, <2>1, Joined, ZenonT(40)
  <2>3. Len(c) \in 0 .. 1 /\ (KeyParses => Len(c) = 1)
    BY <1>2
  <2>4. Len(ab) = 12
    BY <1>5
  <2>5. KeyParses => abc[13] = c[1]
    <3> SUFFICES ASSUME KeyParses PROVE abc[13] = c[1]
      OBVIOUS
    <3>1. 1 \in 1 .. Len(c) /\ 12 + 1 = 13
      BY <2>3
    <3> QED
      BY <2>2, <2>4, <3>1
  <2>6. \A i \in 1 .. 12 : abc[i] = ab[i]
    BY <2>2, <2>4
  <2>7. Len(abc) = 12 + Len(c)
    BY <2>2, <2>4
  <2> QED
    BY <2>1, <2>5, <2>6, <2>7
<1>7. /\ W \in Seq(Names) /\ Len(W) = 16 + Len(c)
      /\ \A i \in 1 .. 12 + Len(c) : W[i] = abc[i]
      /\ \A i \in 1 .. 4 : W[12 + Len(c) + i] = d[i]
  <2>1. W = abc \o d
    BY <1>4 DEF ab
  <2> HIDE DEF abc, W
  <2>2. W \in Seq(Names)
    BY <1>3, <1>6, <2>1, ConcatProperties
  <2>3. /\ Len(W) = Len(abc) + Len(d)
        /\ \A i \in 1 .. Len(abc) : W[i] = abc[i]
        /\ \A i \in 1 .. Len(d) : W[Len(abc) + i] = d[i]
    BY <1>3, <1>6, <2>1, <2>2, Joined, ZenonT(40)
  <2> QED
    BY <1>2, <1>3, <1>6, <2>2, <2>3
<1> HIDE DEF W
<1> HIDE DEF ab, abc
<1>8. \A i \in 1 .. 12 : W[i] = ab[i]
  <2>1. \A i \in 1 .. 12 : i \in 1 .. 12 + Len(c)
    BY <1>2
  <2> QED
    BY <1>6, <1>7, <2>1
<1>9. \A i \in 1 .. 9 : W[i] = Assets[i]
  BY <1>5, <1>8
<1>10. W[10] = b[1] /\ W[11] = b[2] /\ W[12] = b[3]
  <2>1. ab[9 + 1] = b[1] /\ ab[9 + 2] = b[2] /\ ab[9 + 3] = b[3]
    BY <1>5
  <2> QED
    BY <1>8, <2>1
<1>11. KeyParses => W[13] = c[1]
  BY <1>2, <1>6, <1>7
<1>12. W[13 + Len(c)] = d[1] /\ W[14 + Len(c)] = d[2] /\ W[15 + Len(c)] = d[3] /\ W[16 + Len(c)] = d[4]
  BY <1>2, <1>7
<1> QED
  BY <1>1, <1>2, <1>3, <1>7, <1>9, <1>10, <1>11, <1>12

LEMMA EndIs == End \in 16 .. 17 /\ Device!Finished = End + 1 /\ W \in Seq(Names) /\ End = Len(W)
<1>1. End = Len(W)
  BY DEF End
<1>2. Device!Finished = End + 1
  BY <1>1 DEF Device!Finished, W
<1> QED
  BY <1>1, <1>2, WiringIs

\* No route is wired twice.
LEMMA WiredOnce == \A i, j \in 1 .. End : W[i] = W[j] => i = j
<1> DEFINE place(u) ==
      CASE u = "/" -> 1 [] u = "/shell.css" -> 2 [] u = "/shell.js" -> 3
        [] u = "/webui.css" -> 4 [] u = "/webui.js" -> 5 [] u = "/themes/dark.css" -> 6
        [] u = "/themes/light.css" -> 7 [] u = "/vendor/pico.min.css" -> 8
        [] u = "/vendor/alpine.min.js" -> 9 [] u = "/api/status" -> 10
        [] u = "set_provider" -> 11 [] u = "/api/reboot" -> 12 [] u = "/api/ota/upload" -> 13
        [] u = "/panels.html" -> End - 3 [] u = "/panels.js" -> End - 2
        [] u = "/api/hello" -> End - 1 [] OTHER -> End
<1>1. \A i \in 1 .. 9 : place(W[i]) = i
  <2>1. \A i \in 1 .. 9 : place(Assets[i]) = i
    BY AssetsAre
  <2> QED
    BY <2>1, WiringIs
<1>2. \A i \in 10 .. End : place(W[i]) = i
  <2>1. CASE KeyParses
    BY <2>1, WiringIs DEF End
  <2>2. CASE ~KeyParses
    BY <2>2, WiringIs DEF End
  <2> QED
    BY <2>1, <2>2
<1>3. \A i \in 1 .. End : i \in 1 .. 9 \/ i \in 10 .. End
  BY EndIs
<1>4. \A i \in 1 .. End : place(W[i]) = i
  BY <1>1, <1>2, <1>3
<1> HIDE DEF place
<1> QED
  BY <1>4

\* The routes' places: all but that of the provider.
Places == (1 .. End) \ {11}

LEMMA UrisAre == Device!Uris = {W[i] : i \in Places}
<1>1. 11 \in 1 .. End
  BY EndIs
<1>2. DOMAIN W = 1 .. End
  BY EndIs, LenProperties
<1>3. W[11] = "set_provider"
  BY WiringIs
<1>4. Device!Uris = {W[i] : i \in DOMAIN W} \ {"set_provider"}
  BY DEF Device!Uris, W, Device!ToSet
<1> QED
  BY <1>1, <1>2, <1>3, <1>4, WiredOnce DEF Places

LEMMA BehindIs ==
  Device!Behind = {W[j] : j \in {j \in 1 .. 9 : \E i \in 1 .. j - 1 : W[i] \in refused}}
<1>1. Device!Behind =
        {Assets[j] : j \in {j \in 1 .. 9 : \E i \in 1 .. j - 1 : Assets[i] \in refused}}
  BY AssetsAre DEF Device!Behind, Assets
<1>2. \A i \in 1 .. 9 : W[i] = Assets[i]
  BY WiringIs
<1> QED
  BY <1>1, <1>2

\* The files of the page are among the routes.
LEMMA FilesWired == Files \subseteq Device!Uris
<1>1. /\ W[1] = "/" /\ W[3] = "/shell.js" /\ W[5] = "/webui.js" /\ W[9] = "/vendor/alpine.min.js"
      /\ W[End - 3] = Html /\ W[End - 2] = Script
  BY WiringIs, AssetsAre DEF Html, Script, End
<1>2. {1, 3, 5, 9, End - 3, End - 2} \subseteq Places
  <2>1. End \in 16 .. 17
    BY EndIs
  <2> QED
    BY <2>1 DEF Places
<1> QED
  BY <1>1, <1>2, UrisAre DEF Files, Scripts
-----------------------------------------------------------------------------
(* The device.                                                                       *)

Found(u) == Device!Table!Found(u)

\* The route in the i-th place lacked memory, or is a shell asset behind such a one.
Missing(i) == W[i] \in refused \/ (i \in 1 .. 9 /\ \E k \in 1 .. i - 1 : W[k] \in refused)

\* The routes before step are there but the missing ones, and none is there twice.
Routes ==
  /\ Len(listed) < step \/ listed = <<>>
  /\ ~up => step \in {0, Device!Finished} /\ listed = <<>>
  /\ up => step # 0
  /\ \A i \in Places : up => (Found(W[i]) <=> i < step /\ ~Missing(i))
  /\ \A u \in refused : \E i \in Places : i < step /\ u = W[i]
  /\ step <= 9 => refused = {}
  /\ up /\ step > 11 => provider = "set"

\* A status request of a wired device meets a provider that is set.
Status ==
  /\ worker.calm /\ worker.pc # "idle" => step = Device!Finished /\ provider = "set"
  /\ worker.pc = "print" /\ worker.calm /\ ~worker.short => worker.fields

DeviceInv == Device!TypeOK /\ Routes /\ Status

Requests == [pc : {"idle", "test", "call", "print"}, fields : BOOLEAN, short : BOOLEAN, calm : BOOLEAN]

LEMMA DeviceStarts == Device!Init => DeviceInv
<1> SUFFICES ASSUME Device!Init PROVE DeviceInv
  OBVIOUS
<1>1. Device!TypeOK
  <2>1. Device!Finished \in Nat
    BY EndIs
  <2>2. <<>> \in Seq(Device!Table!Route)
    BY EmptySeq
  <2>3. Device!Idle \in Requests
    BY DEF Device!Idle, Requests
  <2>4. listed \in Seq(Device!Table!Route)
    BY <2>2 DEF Device!Init
  <2>5. step \in 0 .. Device!Finished
    BY <2>1 DEF Device!Init
  <2>6. up \in BOOLEAN /\ provider \in {"none", "torn", "set"} /\ refused \subseteq Device!Uris
    BY DEF Device!Init
  <2> QED
    BY <2>3, <2>4, <2>5, <2>6 DEF Device!Init, Device!TypeOK, Requests
<1>2. Routes
  BY EndIs DEF Device!Init, Routes
<1>3. Status
  BY DEF Device!Init, Status, Device!Idle
<1> QED
  BY <1>1, <1>2, <1>3 DEF DeviceInv

\* The URI start_web_ui is at.
LEMMA UriIs == Device!Uri = W[step]
BY DEF Device!Uri, W

LEMMA WiringEnd == Len(Device!Wiring) = End
BY DEF End, W

LEMMA AssetsEnd == Len(Device!ShellAssets) = 9
BY AssetsAre DEF Assets

\* What start_web_ui registers has a place.
LEMMA Registers ==
  ASSUME Device!Register
  PROVE  step \in Places /\ Device!Uri \in Device!Uris
<1>1. step \in 1 .. End /\ W[step] # "set_provider"
  BY WiringEnd, UriIs DEF Device!Register
<1>2. W[11] = "set_provider"
  BY WiringIs
<1>3. step \in Places
  BY <1>1, <1>2 DEF Places
<1> QED
  BY <1>3, UrisAre, UriIs

\* A registration lists its URI, and nothing else.
LEMMA Listing ==
  ASSUME Device!TypeOK, Device!Register, Device!Accepted
  PROVE  /\ up /\ up' = up /\ step' = step + 1 /\ refused' = refused
         /\ listed' \in Seq(Device!Table!Route) /\ Len(listed') = Len(listed) + 1
         /\ \A u : Found(u)' <=> Found(u) \/ u = W[step]
<1> DEFINE r == [key |-> Device!Uri, public |-> FALSE, handler |-> Device!Uri]
<1>1. /\ up /\ up' = up /\ step' = step + 1 /\ refused' = refused
      /\ listed' = Append(listed, r)
  BY DEF Device!Accepted, Device!Table!Accept
<1>2. listed \in Seq(Device!Table!Route)
  BY DEF Device!TypeOK
<1>3. r \in Device!Table!Route
  BY Registers DEF Device!Table!Route
<1>4. r.key = W[step]
  BY UriIs
<1> HIDE DEF r
<1>5. /\ listed' \in Seq(Device!Table!Route) /\ Len(listed') = Len(listed) + 1
      /\ \A i \in 1 .. Len(listed) : listed'[i] = listed[i]
      /\ listed'[Len(listed) + 1] = r /\ Len(listed) \in Nat
  BY <1>1, <1>2, <1>3, AppendProperties, LenProperties
<1>6. ASSUME NEW u PROVE Found(u)' <=> Found(u) \/ u = W[step]
  <2>1. Found(u) <=> \E i \in 1 .. Len(listed) : listed[i].key = u
    BY DEF Found, Device!Table!Found
  <2>2. Found(u)' <=> \E i \in 1 .. Len(listed') : listed'[i].key = u
    BY DEF Found, Device!Table!Found
  <2>3. 1 .. Len(listed') = (1 .. Len(listed)) \cup {Len(listed) + 1}
    BY <1>5
  <2> QED
    BY <1>4, <1>5, <2>1, <2>2, <2>3
<1> QED
  BY <1>1, <1>5, <1>6

LEMMA SameFound == UNCHANGED listed => \A u : Found(u)' <=> Found(u)
BY DEF Found, Device!Table!Found

LEMMA EmptyFound == listed = <<>> => \A u : ~Found(u)
BY DEF Found, Device!Table!Found

\* A refused registration lacked memory, and start_web_ui goes on behind it.
LEMMA Refusing ==
  ASSUME DeviceInv, Device!Register, Device!Refused
  PROVE  /\ up /\ up' = up /\ listed' = listed
         /\ refused' = refused \cup {W[step]}
         /\ step' = IF step <= 9 THEN 10 ELSE step + 1
<1>1. step \in Places /\ step \in 1 .. End /\ Device!Finished = End + 1 /\ End \in 16 .. 17
  BY Registers, EndIs DEF Places
<1>2. up
  BY <1>1 DEF DeviceInv, Routes
<1>3. ~Device!Table!Matched(Device!Uri)
  <2>1. ~Found(W[step])
    BY <1>1, <1>2 DEF DeviceInv, Routes
  <2> QED
    BY <2>1, UriIs DEF Found, Device!Table!Found, Device!Table!Matched
<1>4. Len(listed) # Device!MaxUriHandlers
  <2>1. Len(listed) < step \/ listed = <<>>
    BY DEF DeviceInv, Routes
  <2>2. listed = <<>> => Len(listed) = 0
    BY EmptySeq
  <2>3. Len(listed) < 24
    BY <1>1, <2>1, <2>2
  <2>4. Len(listed) \in Nat
    BY LenProperties DEF DeviceInv, Device!TypeOK
  <2>5. Len(listed) # 24
    <3> DEFINE n == Len(listed)
    <3>1. n < 24 /\ n \in Nat
      BY <2>3, <2>4
    <3> HIDE DEF n
    <3>2. n # 24
      BY <3>1
    <3> QED
      BY <3>2 DEF n
  <2>6. Device!MaxUriHandlers = 24
    BY DEF Device!MaxUriHandlers
  <2> QED
    BY <2>5, <2>6, Zenon
<1>5. refused' = refused \cup {W[step]}
  BY <1>3, <1>4, UriIs DEF Device!Refused
<1>6. step' = IF step <= 9 THEN 10 ELSE step + 1
  BY <1>1, AssetsEnd DEF Device!Refused, Device!AfterRefusal
<1> QED
  BY <1>2, <1>5, <1>6 DEF Device!Refused

LEMMA TypeSteps ==
  ASSUME DeviceInv, Device!Next \/ UNCHANGED device
  PROVE  Device!TypeOK'
<1>1. Device!TypeOK /\ Device!Finished = End + 1 /\ End \in 16 .. 17
  BY EndIs DEF DeviceInv
<1>2. /\ up \in BOOLEAN /\ listed \in Seq(Device!Table!Route) /\ step \in 0 .. End + 1
      /\ provider \in {"none", "torn", "set"} /\ refused \subseteq Device!Uris
      /\ worker \in Requests
  BY <1>1 DEF Device!TypeOK, Requests
<1> SUFFICES
      /\ up' \in BOOLEAN /\ listed' \in Seq(Device!Table!Route) /\ step' \in 0 .. End + 1
      /\ provider' \in {"none", "torn", "set"} /\ refused' \subseteq Device!Uris
      /\ worker' \in Requests
  BY <1>1 DEF Device!TypeOK, Requests
<1>3. <<>> \in Seq(Device!Table!Route)
  BY EmptySeq
<1>4. Device!Idle \in Requests
  BY DEF Device!Idle, Requests
<1>11. 0 \in 0 .. End + 1 /\ 1 \in 0 .. End + 1 /\ Device!Finished \in 0 .. End + 1
  <2>1. End \in 16 .. 17 /\ Device!Finished = End + 1
    BY <1>1
  <2> QED
    BY <2>1
<1>5. CASE Device!StartServer
  <2>1. up' \in BOOLEAN /\ step' \in 0 .. End + 1 /\ UNCHANGED <<provider, refused, worker>>
    BY <1>2, <1>11, <1>5 DEF Device!StartServer, Device!Table!Start
  <2>2. listed' = <<>> \/ listed' = listed
    BY <1>5 DEF Device!StartServer, Device!Table!Start
  <2>3. listed' \in Seq(Device!Table!Route)
    BY <1>2, <1>3, <2>2
  <2> QED
    BY <1>2, <2>1, <2>3
<1>6. CASE Device!Register
  <2>1. step \in 1 .. End /\ Device!Uri \in Device!Uris /\ W[step] \in Device!Uris
    BY <1>6, Registers, UriIs DEF Places
  <2>2. provider' = provider /\ worker' = worker
    BY <1>6 DEF Device!Register
  <2>3. CASE Device!Accepted
    BY <1>1, <1>2, <1>6, <2>1, <2>2, <2>3, Listing
  <2>4. CASE Device!Refused
    BY <1>1, <1>2, <1>6, <2>1, <2>2, <2>4, Refusing
  <2> QED
    BY <1>6, <2>3, <2>4 DEF Device!Register
<1>7. CASE Device!SetProvider
  BY <1>1, <1>2, <1>7, WiringEnd DEF Device!SetProvider
<1>8. CASE Device!Take \/ Device!Test \/ Device!CallProvider \/ Device!PrintStatus
  <2>1. UNCHANGED <<up, listed, step, provider, refused>>
    BY <1>8 DEF Device!Take, Device!Test, Device!CallProvider, Device!PrintStatus, Device!Serving
  <2>2. worker' \in Requests
    BY <1>2, <1>8, <1>4 DEF Device!Take, Device!Test, Device!CallProvider, Device!PrintStatus,
                      Device!Serving, Requests, Device!Registering, Device!Idle
  <2> QED
    BY <1>2, <2>1, <2>2
<1>9. CASE Device!Restart
  <2>1. listed' \in Seq(Device!Table!Route) /\ worker' \in Requests
    BY <1>3, <1>4, <1>9 DEF Device!Restart
  <2>2. /\ up' \in BOOLEAN /\ step' \in 0 .. End + 1 /\ provider' \in {"none", "torn", "set"}
        /\ refused' \subseteq Device!Uris
    BY <1>11, <1>9 DEF Device!Restart
  <2> QED
    BY <2>1, <2>2
<1>10. CASE UNCHANGED device
  BY <1>2, <1>10 DEF device
<1> QED
  BY <1>5, <1>6, <1>7, <1>8, <1>9, <1>10 DEF Device!Next, Device!StartWebUi

LEMMA RoutesSteps ==
  ASSUME DeviceInv, Device!Next \/ UNCHANGED device
  PROVE  Routes'
<1>1. /\ Routes /\ Device!Finished = End + 1 /\ End \in 16 .. 17
      /\ step \in 0 .. End + 1 /\ listed \in Seq(Device!Table!Route)
  BY EndIs DEF DeviceInv, Device!TypeOK
<1>2. \A i \in Places : i \in 1 .. End /\ i # 11
  BY DEF Places
<1>3. Len(listed) \in Nat /\ Len(<<>>) = 0
  BY <1>1, EmptySeq, LenProperties
<1>4. CASE Device!StartServer
  <2>1. step = 0 /\ refused = {} /\ refused' = {} /\ ~up
    BY <1>1, <1>4 DEF Device!StartServer, Routes
  <2>2. CASE Device!Table!Start /\ step' = 1
    <3>1. listed' = <<>> /\ up'
      BY <2>2 DEF Device!Table!Start
    <3>2. \A u : ~Found(u)'
      BY <3>1 DEF Found, Device!Table!Found
    <3> QED
      BY <1>1, <1>2, <2>1, <2>2, <3>1, <3>2 DEF Routes, Missing
  <2>3. CASE UNCHANGED <<up, listed>> /\ step' = Device!Finished
    BY <1>1, <2>1, <2>3 DEF Routes
  <2> QED
    BY <1>4, <2>2, <2>3 DEF Device!StartServer
<1>5. CASE Device!Register
  <2>1. step \in Places /\ step \in 1 .. End /\ up /\ provider' = provider
    BY <1>1, <1>5, Registers DEF Routes, Places, Device!Register
  <2>2. \A i \in Places : W[i] = W[step] <=> i = step
    BY <1>2, <2>1, WiredOnce
  <2>3. CASE Device!Accepted
    <3>1. /\ up' = up /\ step' = step + 1 /\ refused' = refused
          /\ Len(listed') = Len(listed) + 1
          /\ \A u : Found(u)' <=> Found(u) \/ u = W[step]
      BY <1>5, <2>3, Listing DEF DeviceInv
    <3>2. Len(listed) < step
      BY <1>1, <1>3, <2>1 DEF Routes
    <3>3. ~Missing(step)
      <4>1. W[step] \notin refused
        BY <1>1, <1>2, <2>1, <2>2 DEF Routes
      <4>2. step <= 9 => refused = {}
        BY <1>1 DEF Routes
      <4> QED
        BY <4>1, <4>2 DEF Missing
    <3>4. ASSUME NEW i \in Places PROVE Found(W[i])' <=> i < step' /\ ~Missing(i)'
      <4>1. Missing(i)' <=> Missing(i)
        BY <3>1 DEF Missing
      <4>2. Found(W[i]) <=> i < step /\ ~Missing(i)
        BY <1>1, <2>1 DEF Routes
      <4>3. Found(W[i])' <=> Found(W[i]) \/ i = step
        BY <2>2, <3>1
      <4>4. i < step' <=> i < step \/ i = step
        BY <1>2, <2>1, <3>1
      <4> QED
        BY <3>3, <4>1, <4>2, <4>3, <4>4
    <3>5. \A u \in refused' : \E i \in Places : i < step' /\ u = W[i]
      <4>1. \A i \in Places : i < step => i < step'
        BY <1>2, <2>1, <3>1
      <4> QED
        BY <1>1, <3>1, <4>1 DEF Routes
    <3>6. (step' <= 9 => refused' = {}) /\ (up' /\ step' > 11 => provider' = "set")
      BY <1>1, <1>2, <2>1, <3>1 DEF Routes
    <3> QED
      BY <1>1, <2>1, <3>1, <3>2, <3>4, <3>5, <3>6, <1>3 DEF Routes
  <2>4. CASE Device!Refused
    <3>1. /\ up' = up /\ listed' = listed /\ refused' = refused \cup {W[step]}
          /\ step' = IF step <= 9 THEN 10 ELSE step + 1
      BY <1>5, <2>4, Refusing
    <3>2. step < step' /\ step' \in 10 .. End + 1
      BY <1>1, <2>1, <3>1
    <3>3. ASSUME NEW i \in Places PROVE Found(W[i])' <=> i < step' /\ ~Missing(i)'
      <4>1. Found(W[i])' <=> i < step /\ ~Missing(i)
        BY <1>1, <2>1, <3>1, SameFound DEF Routes
      <4>2. i \in 1 .. End
        BY <1>2
      <4>3. \A k \in 1 .. 9 : W[k] = W[step] <=> k = step
        BY <1>1, <2>1, WiredOnce
      <4>4. CASE step <= 9
        <5>1. refused = {} /\ refused' = {W[step]} /\ step' = 10
          BY <1>1, <3>1, <4>4 DEF Routes
        <5>2. ~Missing(i)
          BY <5>1 DEF Missing
        <5>3. Missing(i)' <=> i = step \/ (i \in 1 .. 9 /\ \E k \in 1 .. i - 1 : k = step)
          BY <2>2, <4>3, <5>1 DEF Missing
        <5>4. Missing(i)' <=> i \in step .. 9
          BY <2>1, <4>2, <4>4, <5>3
        <5> QED
          BY <2>1, <4>1, <4>2, <4>4, <5>1, <5>2, <5>4
      <4>5. CASE step > 9
        <5>1. step' = step + 1 /\ \A k \in 1 .. 9 : W[k] # W[step]
          BY <2>1, <3>1, <4>3, <4>5
        <5>2. Missing(i)' <=> Missing(i) \/ i = step
          BY <2>2, <3>1, <5>1 DEF Missing
        <5> QED
          BY <2>1, <4>1, <4>2, <5>1, <5>2
      <4> QED
        BY <2>1, <4>4, <4>5
    <3>4. \A u \in refused' : \E i \in Places : i < step' /\ u = W[i]
      <4>1. \A i \in Places : i < step => i < step'
        BY <1>2, <2>1, <3>2
      <4> QED
        BY <1>1, <2>1, <3>1, <3>2, <4>1 DEF Routes
    <3>5. up' /\ step' > 11 => provider' = "set"
      BY <1>1, <1>2, <2>1, <3>1 DEF Routes
    <3>6. Len(listed') < step' \/ listed' = <<>>
      BY <1>1, <1>3, <2>1, <3>1, <3>2 DEF Routes
    <3> QED
      BY <2>1, <3>1, <3>2, <3>3, <3>4, <3>5, <3>6 DEF Routes
  <2> QED
    BY <1>5, <2>3, <2>4 DEF Device!Register
<1>6. CASE Device!SetProvider
  <2>1. step \in 1 .. End /\ W[step] = "set_provider" /\ UNCHANGED <<up, listed, refused>>
    BY <1>6, WiringEnd, UriIs DEF Device!SetProvider
  <2>2. step = 11
    <3>1. 11 \in 1 .. End /\ W[11] = "set_provider"
      BY <1>1, WiringIs
    <3> QED
      BY <2>1, <3>1, WiredOnce
  <2>3. (step' = 11 \/ (step' = 12 /\ provider' = "set")) /\ up
    BY <1>1, <1>6, <2>1, <2>2 DEF Device!SetProvider, Routes
  <2>4. \A i \in Places : i < step' <=> i < step
    BY <1>2, <2>2, <2>3
  <2>5. ASSUME NEW i \in Places PROVE Found(W[i])' <=> i < step' /\ ~Missing(i)'
    <3>1. Missing(i)' <=> Missing(i)
      BY <2>1 DEF Missing
    <3> QED
      BY <1>1, <2>1, <2>3, <2>4, <3>1, SameFound DEF Routes
  <2> QED
    BY <1>1, <1>3, <2>1, <2>2, <2>3, <2>4, <2>5 DEF Routes
<1>7. CASE UNCHANGED <<up, listed, step, provider, refused>>
  <2>1. \A i \in Places : Found(W[i])' <=> Found(W[i])
    BY <1>7, SameFound
  <2>2. \A i \in Places : Missing(i)' <=> Missing(i)
    BY <1>7 DEF Missing
  <2> QED
    BY <1>1, <1>7, <2>1, <2>2 DEF Routes
<1>8. CASE Device!Restart
  BY <1>1, <1>8 DEF Device!Restart, Routes
<1>9. Device!Take \/ Device!Test \/ Device!CallProvider \/ Device!PrintStatus \/ UNCHANGED device
        => UNCHANGED <<up, listed, step, provider, refused>>
  BY DEF Device!Take, Device!Test, Device!CallProvider, Device!PrintStatus, Device!Serving, device
<1> QED
  BY <1>4, <1>5, <1>6, <1>7, <1>8, <1>9 DEF Device!Next, Device!StartWebUi

LEMMA StatusSteps ==
  ASSUME DeviceInv, Device!Next \/ UNCHANGED device
  PROVE  Status'
<1>1. /\ Routes /\ Status /\ Device!Finished = End + 1 /\ End \in 16 .. 17
      /\ step \in 0 .. End + 1 /\ worker \in Requests
  BY EndIs DEF DeviceInv, Device!TypeOK, Requests
<1>2. CASE UNCHANGED worker /\ UNCHANGED <<step, provider>>
  BY <1>1, <1>2 DEF Status
<1>3. CASE Device!StartWebUi
  <2>1. step # Device!Finished /\ worker' = worker
    BY <1>1, <1>3, WiringEnd DEF Device!StartWebUi, Device!StartServer, Device!Register, Device!SetProvider
  <2> QED
    BY <1>1, <2>1 DEF Status
<1>4. CASE Device!Take
  <2>1. up /\ worker' = [Device!Idle EXCEPT !.pc = "test", !.calm = ~Device!Registering]
        /\ UNCHANGED <<step, provider>>
    BY <1>4 DEF Device!Take, Device!Reaches
  <2>2. worker'.pc = "test" /\ worker'.calm = ~Device!Registering
    BY <2>1 DEF Device!Idle
  <2>3. ~Device!Registering => step = Device!Finished /\ provider = "set"
    BY <1>1, <2>1 DEF Device!Registering, Routes
  <2> QED
    BY <2>1, <2>2, <2>3 DEF Status
<1>5. CASE Device!Test
  BY <1>1, <1>5 DEF Device!Test, Device!Serving, Status, Requests
<1>6. CASE Device!CallProvider
  BY <1>1, <1>6 DEF Device!CallProvider, Device!Serving, Status, Requests
<1>7. CASE Device!PrintStatus \/ Device!Restart
  BY <1>7 DEF Device!PrintStatus, Device!Restart, Device!Serving, Status, Device!Idle
<1> QED
  BY <1>2, <1>3, <1>4, <1>5, <1>6, <1>7 DEF Device!Next, device

LEMMA DeviceSteps ==
  ASSUME DeviceInv, Device!Next \/ UNCHANGED device
  PROVE  DeviceInv'
BY TypeSteps, RoutesSteps, StatusSteps DEF DeviceInv

\* On a wired device only the routes that lacked memory are missing, and those behind them.
LEMMA Costs == DeviceInv => OnlyMemoryCosts
<1> SUFFICES ASSUME DeviceInv, up, ~Device!Registering
             PROVE  {u \in Device!Uris : ~Found(u)} = refused \cup Device!Behind
  BY DEF OnlyMemoryCosts, Device!OnlyMemoryCosts, Found
<1>1. /\ Device!Finished = End + 1 /\ End \in 16 .. 17
      /\ step \in 0 .. End + 1 /\ Routes
  BY EndIs DEF DeviceInv, Device!TypeOK
<1>2. step = End + 1
  BY <1>1 DEF Device!Registering
<1>3. \A i \in Places : ~Found(W[i]) <=> Missing(i)
  BY <1>1, <1>2 DEF Routes, Places
<1>4. refused \subseteq Device!Uris
  BY DEF DeviceInv, Device!TypeOK
<1>5. 1 .. 9 \subseteq Places
  BY <1>1 DEF Places
<1>6. Device!Behind \subseteq Device!Uris
  BY <1>5, BehindIs, UrisAre
<1>7. ASSUME NEW i \in Places PROVE Missing(i) <=> W[i] \in refused \cup Device!Behind
  <2>1. \A j \in 1 .. 9 : W[i] = W[j] => i = j
    BY <1>5, WiredOnce DEF Places
  <2>2. W[i] \in Device!Behind <=> i \in 1 .. 9 /\ \E k \in 1 .. i - 1 : W[k] \in refused
    BY <2>1, BehindIs
  <2> QED
    BY <2>2 DEF Missing
<1> QED
  BY <1>3, <1>4, <1>6, <1>7, UrisAre
-----------------------------------------------------------------------------
(* The page.                                                                         *)

\* A page that lost nothing has no file that failed: its device is wired, and has all.
\* Markup is shown only when both of the project's files are settled; before they are
\* asked for, the status card does not poll.
Page ==
  /\ calm => up /\ step = Device!Finished /\ refused = {}
  /\ calm => \A f \in Files : fetched[f] \in {"none", "asked", "ok"}
  /\ panels # "none" => fetched[Html] \notin {"none", "asked"} /\ fetched[Script] \notin {"none", "asked"}
  /\ fetched[Html] = "none" => polls = 0

PageType ==
  /\ fetched \in [Files -> Outcome]
  /\ panels \in {"none", "shown", "skipped"}
  /\ polls \in 0 .. MaxPolls /\ served \in BOOLEAN
  /\ card \in [on : BOOLEAN, current : BOOLEAN]
  /\ calm \in BOOLEAN

ShellInv == DeviceInv /\ PageType /\ Page

\* Every step of the page is one of the device, or leaves the device alone.
LEMMA NextIsDevices == [Next]_vars => Device!Next \/ UNCHANGED device
BY DEF Next, vars, Open, Parse, Initialized, Inject, Tick, Serve, Lose, TakeStatus, StatusMissed,
       StatusSent, Restart, DeviceStep, Device!Next, Device!StartWebUi, device

LEMMA Cards ==
  /\ \A a, b \in BOOLEAN : [on |-> a, current |-> b] \in [on : BOOLEAN, current : BOOLEAN]
  /\ \A c \in [on : BOOLEAN, current : BOOLEAN] :
       [c EXCEPT !.on = FALSE] \in [on : BOOLEAN, current : BOOLEAN]
<1>1. ASSUME NEW a \in BOOLEAN, NEW b \in BOOLEAN
      PROVE  [on |-> a, current |-> b] \in [on : BOOLEAN, current : BOOLEAN]
  BY Zenon
<1>2. ASSUME NEW c \in [on : BOOLEAN, current : BOOLEAN]
      PROVE  [c EXCEPT !.on = FALSE] \in [on : BOOLEAN, current : BOOLEAN]
  BY Zenon
<1> QED
  BY <1>1, <1>2

LEMMA ShellStarts == Init => ShellInv
<1> SUFFICES ASSUME Init PROVE ShellInv
  OBVIOUS
<1>1. DeviceInv
  BY DeviceStarts DEF Init
<1>2. PageType
  <2>1. card \in [on : BOOLEAN, current : BOOLEAN]
    BY Cards DEF Init
  <2>2. polls \in 0 .. MaxPolls /\ served \in BOOLEAN /\ calm \in BOOLEAN
    <3>1. 0 \in 0 .. MaxPolls
      BY ShellOK
    <3> QED
      BY <3>1, Zenon DEF Init
  <2>3. fetched \in [Files -> Outcome] /\ panels \in {"none", "shown", "skipped"}
    BY DEF Init, Outcome
  <2> QED
    BY <2>1, <2>2, <2>3 DEF PageType
<1>3. Page
  BY DEF Init, Page, Files
<1> QED
  BY <1>1, <1>2, <1>3 DEF ShellInv

LEMMA PageTypeSteps ==
  ASSUME ShellInv, [Next]_vars
  PROVE  PageType'
<1>1. PageType /\ (fetched[Html] = "none" => polls = 0) /\ MaxPolls \in Nat \ {0}
  BY ShellOK DEF ShellInv, Page
<1>2. \A fs : Asked(fs) \in [Files -> Outcome]
  BY <1>1 DEF Asked, PageType, Outcome
<1>3. CASE Open
  <2>1. card' \in [on : BOOLEAN, current : BOOLEAN]
    BY <1>3, Cards DEF Open
  <2>2. polls' \in 0 .. MaxPolls /\ served' \in BOOLEAN
    <3>1. 0 \in 0 .. MaxPolls
      BY <1>1
    <3> QED
      BY <1>3, <3>1, Zenon DEF Open
  <2>3. calm' \in BOOLEAN
    BY <1>3 DEF Open
  <2>4. fetched' \in [Files -> Outcome] /\ panels' \in {"none", "shown", "skipped"}
    BY <1>3 DEF Open, Outcome
  <2> QED
    BY <2>1, <2>2, <2>3, <2>4 DEF PageType
<1>4. CASE Parse
  BY <1>1, <1>2, <1>4 DEF Parse, PageType, Outcome
<1>5. CASE Initialized
  BY <1>1, <1>2, <1>5 DEF Initialized, PageType
<1>6. CASE Inject
  BY <1>1, <1>6 DEF Inject, PageType
<1>7. CASE Tick
  BY <1>1, <1>7 DEF Tick, PageType
<1>8. CASE \E f \in Files : Serve(f) \/ Lose(f)
  <2>1. PICK f \in Files : Serve(f) \/ Lose(f)
    BY <1>8
  <2>2. fetched' \in [Files -> Outcome] /\ UNCHANGED <<panels, polls, served, card>>
    BY <1>1, <2>1 DEF Serve, Lose, Settled, PageType, Outcome
  <2>3. calm' \in BOOLEAN
    BY <1>1, <2>1 DEF Serve, Lose, PageType
  <2> QED
    BY <1>1, <2>2, <2>3 DEF PageType
<1>9. CASE TakeStatus
  BY <1>1, <1>9 DEF TakeStatus, PageType
<1>10. CASE StatusMissed
  <2>1. card' \in [on : BOOLEAN, current : BOOLEAN]
    BY <1>1, <1>10, Cards DEF StatusMissed, Shows, PageType
  <2> QED
    BY <1>1, <1>10, <2>1 DEF StatusMissed, PageType
<1>11. CASE \E ok \in BOOLEAN : StatusSent(ok)
  <2>1. PICK ok \in BOOLEAN : StatusSent(ok)
    BY <1>11
  <2>2. card' \in [on : BOOLEAN, current : BOOLEAN]
    <3>1. card' \in {card, [on |-> TRUE, current |-> TRUE], [card EXCEPT !.on = FALSE]}
      BY <2>1 DEF StatusSent, Shows
    <3>2. card \in [on : BOOLEAN, current : BOOLEAN]
      BY <1>1 DEF PageType
    <3>3. /\ [on |-> TRUE, current |-> TRUE] \in [on : BOOLEAN, current : BOOLEAN]
          /\ [card EXCEPT !.on = FALSE] \in [on : BOOLEAN, current : BOOLEAN]
      BY <3>2, Cards
    <3> QED
      BY <3>1, <3>2, <3>3, Zenon
  <2> QED
    BY <1>1, <2>1, <2>2 DEF StatusSent, PageType
<1>12. CASE Restart
  <2>1. card' \in [on : BOOLEAN, current : BOOLEAN]
    <3>1. (card.on /\ polls = 0 /\ ~served) \in BOOLEAN
      OBVIOUS
    <3> QED
      BY <1>12, <3>1, Cards DEF Restart
  <2>2. fetched' \in [Files -> Outcome]
    BY <1>1, <1>12 DEF Restart, PageType, Outcome
  <2>3. polls' \in 0 .. MaxPolls /\ served' \in BOOLEAN /\ calm' \in BOOLEAN
    <3>1. 0 \in 0 .. MaxPolls
      BY <1>1
    <3> QED
      BY <1>12, <3>1, Zenon DEF Restart
  <2> QED
    BY <1>1, <1>12, <2>1, <2>2, <2>3 DEF Restart, PageType
<1>13. CASE DeviceStep \/ UNCHANGED vars
  BY <1>1, <1>13 DEF DeviceStep, vars, page, PageType
<1> QED
  BY <1>3, <1>4, <1>5, <1>6, <1>7, <1>8, <1>9, <1>10, <1>11, <1>12, <1>13 DEF Next

LEMMA PageSteps ==
  ASSUME ShellInv, [Next]_vars
  PROVE  Page'
<1>1. /\ Page /\ PageType
      /\ Html \in Files /\ Script \in Files /\ Html \notin Scripts /\ Script \notin Scripts
      /\ Html # "/" /\ Script # "/" /\ "/vendor/alpine.min.js" \in Scripts /\ Scripts \subseteq Files
  BY DEF ShellInv, Html, Script, Scripts, Files
<1>2. fetched \in [Files -> Outcome]
  BY <1>1 DEF PageType
<1>3. CASE Open
  BY <1>1, <1>3 DEF Open, Page, device
<1>4. CASE Parse
  <2>1. /\ UNCHANGED <<up, step, refused, panels, polls, calm>>
        /\ fetched' = Asked(Scripts) \/ fetched' = [Asked(Scripts) EXCEPT !["/vendor/alpine.min.js"] = "ok"]
    BY <1>4 DEF Parse, device
  <2>2. \A f \in Files : fetched'[f] = fetched[f] \/ fetched'[f] \in {"asked", "ok"}
    BY <2>1 DEF Asked
  <2>3. fetched'[Html] = fetched[Html] /\ fetched'[Script] = fetched[Script]
    BY <1>1, <2>1 DEF Asked
  <2> QED
    BY <1>1, <2>1, <2>2, <2>3 DEF Page
<1>5. CASE Initialized
  <2>1. UNCHANGED <<up, step, refused, panels, calm>> /\ fetched' = Asked({Html, Script})
    BY <1>5 DEF Initialized, device
  <2>2. panels = "none"
    BY <1>1, <1>5 DEF Initialized, Page
  <2>3. fetched'[Html] = "asked" /\ \A f \in Files : fetched'[f] \in {fetched[f], "asked"}
    BY <1>1, <2>1 DEF Asked
  <2> QED
    BY <1>1, <2>1, <2>2, <2>3 DEF Page
<1>6. CASE Inject
  BY <1>1, <1>6 DEF Inject, Page, device
<1>7. CASE Tick
  BY <1>1, <1>7 DEF Tick, Page, device
<1>8. ASSUME NEW f \in Files, Serve(f) PROVE Page'
  <2>1. UNCHANGED <<up, step, refused, panels, polls, calm>>
    BY <1>8 DEF Serve, device
  <2>2. calm => ~Device!Misses(f)
    <3>1. SUFFICES ASSUME calm PROVE ~Device!Misses(f)
      OBVIOUS
    <3>2. up /\ step = Device!Finished /\ refused = {}
      BY <1>1, <3>1 DEF Page
    <3>3. ~Device!Registering
      BY <3>2, EndIs DEF Device!Registering
    <3>4. Device!Behind = {}
      BY <3>2, BehindIs
    <3>5. {u \in Device!Uris : ~Device!Table!Found(u)} = {}
      BY <3>2, <3>3, <3>4, Costs DEF ShellInv, OnlyMemoryCosts, Device!OnlyMemoryCosts
    <3> QED
      BY <3>3, <3>5, FilesWired DEF Device!Misses
  <2>3. fetched[f] = "asked" /\ (fetched' = [fetched EXCEPT ![f] = "ok"]
                                 \/ (~calm /\ fetched' = [fetched EXCEPT ![f] = "404"]))
    BY <1>8, <2>2 DEF Serve, Settled
  <2> QED
    BY <1>1, <1>2, <2>1, <2>3 DEF Page
<1>9. ASSUME NEW f \in Files, Lose(f) PROVE Page'
  BY <1>1, <1>2, <1>9 DEF Lose, Settled, Page, device
<1>10. CASE TakeStatus
  <2>1. UNCHANGED <<up, step, refused, panels, fetched, calm>> /\ polls > 0
    BY <1>10 DEF TakeStatus, Device!Take
  <2> QED
    BY <1>1, <2>1 DEF Page
<1>11. CASE StatusMissed
  BY <1>1, <1>11 DEF StatusMissed, Page, device
<1>12. ASSUME NEW ok \in BOOLEAN, StatusSent(ok) PROVE Page'
  <2>1. UNCHANGED <<up, step, refused, panels, fetched, polls, calm>>
    BY <1>12 DEF StatusSent, Device!PrintStatus, Device!Serving
  <2> QED
    BY <1>1, <2>1 DEF Page
<1>13. CASE Restart
  BY <1>1, <1>2, <1>13 DEF Restart, Page
<1>14. CASE DeviceStep
  <2>1. UNCHANGED <<panels, fetched, polls, calm>>
    BY <1>14 DEF DeviceStep, page
  <2>2. calm => UNCHANGED <<up, step, refused>>
    <3>1. calm => step = Device!Finished /\ Device!Finished = End + 1 /\ End \in 16 .. 17
      BY <1>1, EndIs DEF Page
    <3>2. calm => ~Device!StartWebUi
      BY <3>1, WiringEnd DEF Device!StartWebUi, Device!StartServer, Device!Register, Device!SetProvider
    <3> QED
      BY <1>14, <3>2 DEF DeviceStep, Device!Test, Device!CallProvider, Device!Serving
  <2> QED
    BY <1>1, <2>1, <2>2 DEF Page
<1>15. CASE UNCHANGED vars
  BY <1>1, <1>15 DEF vars, device, page, Page
<1> QED
  BY <1>3, <1>4, <1>5, <1>6, <1>7, <1>8, <1>9, <1>10, <1>11, <1>12, <1>13, <1>14, <1>15 DEF Next

LEMMA Invariance == Spec => []ShellInv
<1>1. ShellInv /\ [Next]_vars => ShellInv'
  BY NextIsDevices, DeviceSteps, PageTypeSteps, PageSteps DEF ShellInv
<1> QED
  BY ShellStarts, <1>1, PTL DEF Spec

\* The type invariant of the page and its device.
THEOREM TypeCorrect == Spec => []TypeOK
<1>1. ShellInv => TypeOK
  BY DEF ShellInv, DeviceInv, PageType, TypeOK
<1> QED
  BY <1>1, Invariance, PTL

\* start_web_ui: once it is through, a route is missing only for lack of memory, or
\* because it is a shell asset behind one that is.
THEOREM OnlyMemory == Spec => []OnlyMemoryCosts
<1>1. ShellInv => OnlyMemoryCosts
  BY Costs DEF ShellInv
<1> QED
  BY <1>1, Invariance, PTL

\* handle_status: a status asked for once start_web_ui was through carries the
\* provider's fields, but for lack of memory.
THEOREM StatusWhole == Spec => []StatusComplete
<1>1. ShellInv => StatusComplete
  BY DEF ShellInv, DeviceInv, Status, StatusComplete, Device!StatusComplete
<1> QED
  BY <1>1, Invariance, PTL

\* load_project_panels: panels never show without their script on a page that was opened
\* on a wired device and lost nothing.
THEOREM PanelsWhole == Spec => []PanelsComplete
<1>1. ShellInv => PanelsComplete
  <2>1. Script \in Files
    BY DEF Files
  <2> QED
    BY <2>1 DEF ShellInv, Page, PanelsComplete
<1> QED
  BY <1>1, Invariance, PTL
-----------------------------------------------------------------------------
(* The refinements.                                                                  *)

\* With its page left aside, the module is Glue: the page drives the device by nothing
\* but what Glue lets a browser ask for.
THEOREM DeviceIsGlue == Spec => Device!Spec
<1>1. Init => Device!Init
  BY DEF Init
<1>2. [Next]_vars => [Device!Next]_(Device!vars)
  BY NextIsDevices DEF device, Device!vars
<1> QED
  BY <1>1, <1>2, PTL DEF Spec, Device!Spec

\* What start_web_ui registers is a route, whole: its URI and its handler.
LEMMA RegistersRoute ==
  ASSUME Device!Register, Device!Accepted
  PROVE  \E r \in Device!Table!Route : Device!Table!Accept(r)
<1> DEFINE r == [key |-> Device!Uri, public |-> FALSE, handler |-> Device!Uri]
<1>1. Device!Uri \in Device!Uris
  BY Registers
<1>2. r \in Device!Table!Route
  BY <1>1 DEF Device!Table!Route
<1>3. Device!Table!Accept(r)
  BY DEF Device!Accepted
<1> QED
  BY <1>2, <1>3, Zenon

\* start_web_ui uses the server as server.h lets it: it starts one, adds whole routes,
\* and loses them only when the device restarts.  A refused registration changes nothing.
THEOREM WiringIsRouteTable == Spec => Device!Table!Spec
<1>1. Init => Device!Table!Init
  BY DEF Init, Device!Init, Device!Table!Init
<1>2. ShellInv /\ [Next]_vars => [Device!Table!Next]_<<up, listed>>
  <2> SUFFICES ASSUME ShellInv, Device!Next \/ UNCHANGED device
               PROVE  Device!Table!Next \/ UNCHANGED <<up, listed>>
    BY NextIsDevices
  <2>1. CASE Device!StartServer
    BY <2>1 DEF Device!StartServer, Device!Table!Next
  <2>2. CASE Device!Register
    <3>1. CASE Device!Accepted
      BY <2>2, <3>1, RegistersRoute DEF Device!Table!Next
    <3>2. CASE Device!Refused
      BY <3>2 DEF Device!Refused
    <3> QED
      BY <2>2, <3>1, <3>2 DEF Device!Register
  <2>3. CASE Device!SetProvider
    BY <2>3 DEF Device!SetProvider
  <2>4. CASE Device!Take \/ Device!Test \/ Device!CallProvider \/ Device!PrintStatus \/ UNCHANGED device
    BY <2>4 DEF Device!Take, Device!Test, Device!CallProvider, Device!PrintStatus, Device!Serving, device
  <2>5. CASE Device!Restart
    <3>1. CASE up
      BY <2>5, <3>1 DEF Device!Restart, Device!Table!Next, Device!Table!Stop
    <3>2. CASE ~up
      <4>1. listed = <<>> /\ up = FALSE
        BY <3>2 DEF ShellInv, DeviceInv, Routes, Device!TypeOK
      <4> QED
        BY <2>5, <4>1 DEF Device!Restart
    <3> QED
      BY <3>1, <3>2
  <2> QED
    BY <2>1, <2>2, <2>3, <2>4, <2>5 DEF Device!Next, Device!StartWebUi
<1> QED
  BY <1>1, <1>2, Invariance, PTL DEF Spec, Device!Table!Spec
===============================================================================
