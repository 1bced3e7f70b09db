\* A handshake that failed ends the behaviour.
SPECIFICATION Spec
CONSTANTS
  rp_v2_crc16 <- Crc16
  Payload = {174}
  Noise = {234, 235}
  Chunk = {5}
  Attempts = 2
  MaxPayload = 3
  Backlog = 1
  MaxFrames = 2
  MaxRestarts = 1
  MaxFaults = 1
CHECK_DEADLOCK FALSE
INVARIANTS TypeOK Genuine NothingMissed SessionAgrees CountedOnce
