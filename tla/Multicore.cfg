\* Three CPUs start up with the hard real-time profile; two send events; one relays.
SPECIFICATION MulticoreSpec
CONSTANTS
    event = event
    item = item
    None = None
    NCpus = 3
    HardRt = TRUE
INVARIANTS TypeOK Together AttachFindsAll
PROPERTIES StartupSettles DrainsKeepUp
