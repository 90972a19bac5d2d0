SPECIFICATION MediaSpec
CONSTANTS
  HumanAttempts = 3
  AgentAttempts = 2
  ChannelAttempts = 4
  TrackFaults = 2
  ChannelFaults = 1
  MaxFrames = 2
  MaxOps = 4
INVARIANTS MediaTypeOK WhatWasNegotiated
PROPERTIES OfferedIsReceived VoiceIsReady
CHECK_DEADLOCK FALSE
