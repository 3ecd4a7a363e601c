--------------------------- MODULE MCConfigManager ---------------------------
(* A full file, the same without some key or section, and older names. *)
EXTENDS ConfigManager, FiniteSets

FullFile == [key \in Required \union Guarded |-> 2]
Without(keys) == [key \in DOMAIN FullFile \ keys |-> 2]
NetFile(section, names) == [key \in Keys(section, names) |-> 3]

SomeKeys == {<<"camera", "fps_target">>, <<"trigger", "cooldown_ms">>, <<"serial", "enabled">>}

FilesDef ==
    {FullFile}
      \union {Without({key}) : key \in SomeKeys}
      \union {Without({key \in DOMAIN FullFile : key[1] = s}) : s \in {"yolo", "ballistics"}}
      \union {[key \in {LockFrames} |-> 2], [key \in {<<"targets", "iha">>} |-> 2]}
      \union {NetFile("network", {"gcs_host", "video_udp_port", "telemetry_tcp_port"}),
              NetFile("networking", {"target_pc_ip", "video_port", "telemetry_port",
                                     "telemetry_push_port", "video_enabled"}),
              [key \in Keys("network", {"gcs_host"}) \union Keys("networking", {"jpeg_quality"})
                |-> 4],
              [key \in Keys("network", {"gcs_host", "target_pc_ip"})
                |-> IF key[2] = "gcs_host" THEN 2 ELSE 0]}
=============================================================================
