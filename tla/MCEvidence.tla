---------------------------- MODULE MCEvidence ----------------------------
(* Evidence, endorsements and reference values for TLC: one of each kind,  *)
(* and what differs from them in one place.                                *)
EXTENDS EvidenceVerification, TLC

MCDigest(x) == [sha2_256 |-> x]
MCEvent(type, values) == [type |-> type, values |-> values]

MCKernelValues ==
    [kernel_image |-> MCDigest("image"), kernel_setup_data |-> MCDigest("setup"),
     kernel_cmd_line |-> "line", init_ram_fs |-> MCDigest("ramdisk"),
     memory_map |-> MCDigest("map"), acpi |-> MCDigest("acpi")]
MCSystemValues == [system_image |-> MCDigest("system")]
MCBinaryValues == [binary |-> MCDigest("binary"), configuration |-> MCDigest("config")]

MCLog(type) ==
    LET values == IF type = "RestrictedKernel" THEN <<MCKernelValues, MCBinaryValues>>
                  ELSE <<MCKernelValues, MCSystemValues, MCBinaryValues>>
    IN  [i \in DOMAIN values |-> MCEvent(EventTypes(type)[i], values[i])]

MCKeys == <<"k0", "k1", "k2", "k3">>
MCLayers(events, claims) ==
    [i \in DOMAIN events |-> [signer |-> MCKeys[i], key |-> MCKeys[i + 1], event |-> events[i],
                              claims |-> claims[i]]]
MCApplicationKeys(signer, event, claims) ==
    [encryption_signer |-> signer, signing_signer |-> signer, event |-> event, claims |-> claims]

MCReport ==
    [signer |-> "vcek", chip_id |-> 1, reported_tcb |-> <<2, 2>>, product |-> "Milan",
        debug |-> FALSE,
     vmpl |-> 0, measurement |-> "firmware", report_data |-> "k0", valid |-> TRUE]
MCQuote(log) ==
    [signed |-> TRUE, not_before |-> 0, not_after |-> 2, debug |-> FALSE, tee_tcb_svn |-> <<2, 2>>,
     measurement |-> "tdx firmware", rtmr_2 |-> log, valid |-> TRUE]

(* A restricted kernel has one layer, which the older claims describe too; *)
(* containers have three.                                                  *)
MCRestrictedKernel ==
    LET log == MCLog("RestrictedKernel")
    IN  [platform |-> "AmdSevSnp", report |-> MCReport, eca_public_key |-> "k0", event_log |-> log,
         layers |-> MCLayers(<<log[1]>>, <<MCEvent("Kernel", MCKernelValues)>>),
         application_keys |-> MCApplicationKeys("k1", log[2], MCEvent("Application",
             MCBinaryValues))]
MCContainers ==
    LET log == MCLog("Containers")
    IN  [platform |-> "AmdSevSnp", report |-> MCReport, eca_public_key |-> "k0", event_log |-> log,
         layers |-> MCLayers(log, <<Nil, Nil, Nil>>),
             application_keys |-> MCApplicationKeys("k3", Nil, Nil)]
(* Containers before there were event logs.                                *)
MCOldContainers ==
    [MCContainers EXCEPT
        !.event_log = Nil,
        !.layers = MCLayers(<<Nil, Nil>>, <<MCEvent("Kernel", MCKernelValues), MCEvent("System",
            MCSystemValues)>>),
        !.application_keys = MCApplicationKeys("k2", Nil, MCEvent("Container", MCBinaryValues))]
(* Containers whose later events have the types they had once.             *)
MCFormerContainers ==
    LET log == [i \in 1..3 |-> [MCLog("Containers")[i] EXCEPT !.type = LegacyContainers[i]]]
    IN  [MCContainers EXCEPT !.event_log = log, !.layers = MCLayers(log, <<Nil, Nil, Nil>>)]

(* One thing about a piece of evidence is different.                       *)
MCEvidenceChanges(ev) ==
    {ev,
     [ev EXCEPT !.report.signer = "other"], [ev EXCEPT !.report.chip_id = 2],
     [ev EXCEPT !.report.reported_tcb = <<2, 1>>], [ev EXCEPT !.report.product = "Genoa"],
     [ev EXCEPT !.report.debug = TRUE], [ev EXCEPT !.report.vmpl = 1],
     [ev EXCEPT !.report.measurement = "other"], [ev EXCEPT !.report.report_data = "other"],
     [ev EXCEPT !.report.valid = FALSE], [ev EXCEPT !.platform = "None"],
     [ev EXCEPT !.platform = "None", !.report.valid = FALSE],
         [ev EXCEPT !.platform = "Unspecified"],
     [ev EXCEPT !.eca_public_key = "other"],
     [ev EXCEPT !.layers[Len(ev.layers)].signer = "other"],
     [ev EXCEPT !.layers[1].key = "other"],
     [ev EXCEPT !.layers[1].event = MCEvent("Stage0Measurements",
         [MCKernelValues EXCEPT !.kernel_cmd_line = "long"])],
     [ev EXCEPT !.layers = Tail(@)],
     [ev EXCEPT !.layers = SubSeq(@, 1, Len(@) - 1),
         !.application_keys.encryption_signer = KeyAbove(ev, Len(ev.layers)),
                !.application_keys.signing_signer = KeyAbove(ev, Len(ev.layers))],
     [ev EXCEPT !.application_keys = Nil], [ev EXCEPT !.application_keys.signing_signer = "other"],
     [ev EXCEPT !.application_keys.encryption_signer = "other"],
     [ev EXCEPT !.application_keys.event = Nil], [ev EXCEPT !.application_keys.claims = Nil],
     [ev EXCEPT !.event_log = Nil], [ev EXCEPT !.event_log = << >>]}

MCLogChanges(ev) ==
    LET n == Len(ev.event_log)
        Logged(log) == [ev EXCEPT !.event_log = log,
            !.layers = [i \in DOMAIN @ |-> [@[i] EXCEPT !.event = log[i]]],
                                  !.application_keys.event = log[n]]
        Other(f, x) == [ev.event_log EXCEPT ![1].values[f] = x]
    IN  {[ev EXCEPT !.event_log = SubSeq(@, 1, n - 1)], [ev EXCEPT !.event_log = Append(@,
        ev.event_log[n])],
         [ev EXCEPT !.event_log[n].values = [binary |-> MCDigest("other"),
             configuration |-> MCDigest("config")]],
         Logged([ev.event_log EXCEPT ![n].values = [binary |-> MCDigest("binary")]]),
         Logged([ev.event_log EXCEPT ![n].type = "SystemLayerData"]),
         Logged(Other("kernel_image", MCDigest("other"))), Logged(Other("kernel_cmd_line", "long")),
         Logged(Other("kernel_cmd_line", "endorsed")), Logged(Other("acpi", MCDigest("other"))),
         Logged(Other("init_ram_fs", [h \in {} |-> "none"]))}

MCQuoted(quote) == [MCContainers EXCEPT !.platform = "IntelTdx", !.report = quote]
MCTdx ==
    LET q == MCQuote(MCLog("Containers"))
    IN  {MCQuoted(x) : x \in {q, [q EXCEPT !.signed = FALSE], [q EXCEPT !.debug = TRUE],
                              [q EXCEPT !.tee_tcb_svn = <<3, 1>>],
                                  [q EXCEPT !.measurement = "firmware"],
                              [q EXCEPT !.rtmr_2 = SubSeq(@, 1, 2)],
                                  [q EXCEPT !.rtmr_2 = Append(@, @[1])]}}
        \cup {[MCQuoted(q) EXCEPT !.event_log = Nil]}

-----------------------------------------------------------------------------
(* Statements are valid at 1 and 2 and were logged at 1.                   *)
MCStatement(contents, claims) ==
    [digest |-> MCDigest(contents), not_before |-> 1, not_after |-> 2, claims |-> claims]
MCEndorsement(statement, subject) ==
    [key_id |-> 1, signer |-> "endorser", subject |-> subject, statement |-> statement,
     rekor |-> [signer |-> "rekor", integrated_time |-> 1, artifact |-> statement,
         endorser |-> "endorser"],
     c2sp |-> FALSE, pes |-> FALSE]

MCDecoded ==
    [stage0 |-> [kind |-> "stage0", configs |-> {[sha2_384 |-> "firmware"]},
                 tdx_measurement |-> [sha2_384 |-> "tdx firmware"]],
     kernel |-> [kind |-> "kernel", kernel_image |-> MCDigest("image"),
         kernel_setup_data |-> MCDigest("setup")],
     regex |-> [kind |-> "kernel_cmd_line", regex |-> {"line", "endorsed", "long"}]]

MCEndorsements(c) ==
    CASE c = "stage0" -> MCEndorsement(MCStatement("stage0", {"firmware"}), "stage0")
      [] c = "kernel" -> MCEndorsement(MCStatement("kernel", {"kernel"}), "kernel")
      [] c = "kernel_cmd_line" -> MCEndorsement(MCStatement("regex", {}), "regex")
      [] c = "init_ram_fs" -> MCEndorsement(MCStatement("ramdisk", {}), Nil)
      [] c = "binary" -> MCEndorsement(MCStatement("binary", {"published"}), Nil)
      [] OTHER -> Nil
MCEndorsed == {"stage0", "kernel", "kernel_cmd_line", "init_ram_fs", "binary"}
MCAllComponents == KernelComponents \cup {"stage0", "system_image", "binary", "configuration"}

MCCertificate ==
    [product |-> "Milan", ask |-> "Milan", key |-> "vcek", chip_id |-> 1, tcb |-> <<2, 2>>,
     not_before |-> 1, not_after |-> 2]
MCEndorsementsOf(type) ==
    [type |-> type, tee_certificate |-> MCCertificate, platform |-> TRUE, initial |-> TRUE,
     events |-> EventTypes(type), of |-> [c \in MCAllComponents |-> MCEndorsements(c)]]

(* One thing about the endorsements is different.                          *)
MCEndorsementChanges(n) ==
    {n,
     [n EXCEPT !.tee_certificate = Nil], [n EXCEPT !.tee_certificate.ask = "Genoa"],
     [n EXCEPT !.tee_certificate.product = "Unsupported"], [n EXCEPT !.platform = FALSE],
     [n EXCEPT !.initial = FALSE], [n EXCEPT !.events = SubSeq(@, 1, 1)],
     [n EXCEPT !.events[1] = "Empty"], [n EXCEPT !.events[1] = "SystemLayerData"],
     [n EXCEPT !.events = Append(@, "Empty")],
     [n EXCEPT !.type = IF @ = "Containers" THEN "RestrictedKernel" ELSE "Containers"]}
    \cup UNION {{[n EXCEPT !.of[c] = e] :
            e \in LET e == n.of[c] IN
                {Nil, [e EXCEPT !.signer = "former"], [e EXCEPT !.signer = "former",
                    !.key_id = 7, !.rekor.endorser = "former"],
                 [e EXCEPT !.key_id = 7], [e EXCEPT !.key_id = 9], [e EXCEPT !.signer = "other"],
                 [e EXCEPT !.subject = "config"], [e EXCEPT !.statement.claims = {}],
                     [e EXCEPT !.statement.not_after = 3],
                 [e EXCEPT !.statement.not_after = 3, !.rekor.artifact.not_after = 3],
                 [e EXCEPT !.rekor = Nil], [e EXCEPT !.rekor.signer = "other"],
                     [e EXCEPT !.rekor.endorser = "other"],
                 [e EXCEPT !.rekor = Nil, !.c2sp = TRUE],
                     [e EXCEPT !.pes = TRUE]}} : c \in MCEndorsed}

-----------------------------------------------------------------------------
MCRekor(max_age, not_before) == [keys |-> {"rekor"}, max_age |-> max_age,
    not_before_absolute |-> not_before]
MCTlog(strategy, rekor, c2sp, pes) == [strategy |-> strategy, rekor |-> rekor, c2sp |-> c2sp,
    pes |-> pes]
MCByEndorsement(tlog) ==
    [type |-> "Endorsement", claims |-> {}, tlog |-> tlog,
     keys |-> <<[key_id |-> 7, key |-> "former"], [key_id |-> 1, key |-> "endorser"]>>]
MCSkip == [type |-> "Skip"]
MCByDigest(c) ==
    [type |-> "Digests",
     digests |-> [f \in FieldsOf(c) |->
                    {IF c = "stage0" THEN [sha2_384 |-> "firmware"]
                     ELSE (MCKernelValues @@ MCSystemValues @@ MCBinaryValues)[f]}]]

MCAmdSev ==
    [min_tcb_version |-> Nil, tcb |-> [Milan |-> [type |-> "Minimum", minimum |-> <<2, 2>>]],
     allow_debug |-> FALSE, check_vcek_cert_expiry |-> FALSE]
MCReference(type, Ref(_)) ==
    [type |-> type, amd_sev |-> MCAmdSev, insecure |-> FALSE,
     intel_tdx |-> [tcb |-> [type |-> "Minimum", minimum |-> <<2, 2>>], allow_debug |-> FALSE],
     of |-> [c \in MCAllComponents |-> Ref(c)]]

MCText == [type |-> "Text", texts |-> {"line", "long"}]
MCByList(c) == IF c = "kernel_cmd_line" THEN MCText ELSE MCByDigest(c)
MCPlain(c) == IF c \in MCEndorsed \ {"kernel_cmd_line"}
              THEN MCByEndorsement(MCTlog("All", MCRekor(Nil, Nil), FALSE, FALSE)) ELSE MCByList(c)
MCLogged(tlog, c) == IF c \in MCEndorsed THEN MCByEndorsement(tlog) ELSE MCByList(c)

(* Reference values of each kind.                                          *)
MCReferences(type) ==
    LET plain == MCReference(type, MCPlain)
        Logs(tlog) == [plain EXCEPT !.of = [c \in MCAllComponents |-> MCLogged(tlog, c)]]
    IN  {plain, MCReference(type, LAMBDA c : MCSkip), MCReference(type, MCByList),
         [plain EXCEPT !.insecure = TRUE], [plain EXCEPT !.insecure = TRUE, !.amd_sev = Nil],
         [plain EXCEPT !.amd_sev.min_tcb_version = <<2, 1>>, !.amd_sev.allow_debug = TRUE],
         [plain EXCEPT !.amd_sev.check_vcek_cert_expiry = TRUE],
         [plain EXCEPT !.amd_sev.tcb = [Genoa |-> MCSkip]],
         [plain EXCEPT !.of["binary"].claims = {"published"}],
         [plain EXCEPT !.of["kernel_cmd_line"] = MCSkip], [plain EXCEPT !.of["acpi"] = Nil],
         Logs(MCTlog("Skip", Nil, FALSE, FALSE)), Logs(MCTlog("All", MCRekor(0, 1), FALSE, FALSE)),
         Logs(MCTlog("All", MCRekor(Nil, 2), FALSE, FALSE)), Logs(MCTlog("All", Nil, TRUE, FALSE)),
         Logs(MCTlog("Any", MCRekor(1, Nil), TRUE, TRUE)), Logs(MCTlog("Any", Nil, FALSE, TRUE))}

MCCase(ev, n, ref) == [evidence |-> ev, endorsements |-> n, reference |-> ref]
MCBases == {<<"RestrictedKernel", MCRestrictedKernel>>, <<"Containers", MCContainers>>}

MCCases ==
    UNION {{MCCase(ev, MCEndorsementsOf(base[1]), ref) :
               ev \in MCEvidenceChanges(base[2]) \cup MCLogChanges(base[2]),
                   ref \in MCReferences(base[1])}
           \cup {MCCase(base[2], n, ref) :
               n \in MCEndorsementChanges(MCEndorsementsOf(base[1])),
                   ref \in MCReferences(base[1])} : base \in MCBases}
    \cup {MCCase(ev, MCEndorsementsOf("Containers"), ref) :
             ev \in MCEvidenceChanges(MCOldContainers) \cup {MCFormerContainers} \cup MCTdx,
                 ref \in MCReferences("Containers")}
    \cup {MCCase(ev, n, ref) :
             ev \in {[MCContainers EXCEPT !.platform = "None"],
                     [MCContainers EXCEPT !.report.measurement = "tdx firmware"]},
             n \in {[MCEndorsementsOf("Containers") EXCEPT !.of["stage0"] = e] :
                        e \in {Nil, MCEndorsements("stage0")}},
             ref \in MCReferences("Containers")}

=============================================================================
