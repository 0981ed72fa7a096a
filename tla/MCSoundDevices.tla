--------------------------- MODULE MCSoundDevices ---------------------------
(* Both builds for DOS, with drivers in the archive (and once with a first  *)
(* that has no drv_init) and without, Linux, and Windows with more ports    *)
(* than there are slots; notes of which two share a channel and two a key,  *)
(* one is a drum and one too low for the speaker.                           *)
EXTENDS SoundDevices

Build(platform, drivers, inbox) ==
  [platform |-> platform, drivers |-> drivers, broken |-> {}, inbox |-> inbox]
MCPorts == {"mme0", "mme1", "mme2", "mme3", "mme4"}
MCBuilds ==
  {Build("dos", <<"mpu", "opl">>, <<"beep">>),
   [Build("dos", <<"mpu", "opl">>, <<"beep">>) EXCEPT !.broken = {"mpu"}],
   Build("dos", <<>>, <<"mpu", "opl", "beep">>),
   Build("linux", <<>>, <<"fluid", "beep">>),
   Build("windows", <<>>, <<"mme0", "mme1", "mme2", "mme3", "mme4">>)}
MCNotes == {<<0, 13>>, <<0, 69>>, <<1, 69>>, <<1, 60>>, <<9, 35>>}
==============================================================================
