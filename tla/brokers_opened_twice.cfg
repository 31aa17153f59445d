CONSTANTS
  b1 = b1
  b2 = b2
  p1 = p1
  p2 = p2
  Brokers <- TwoBrokers
  Producers <- TwoProducers
  CloseAnytime = FALSE
SPECIFICATION FairSpec
PROPERTY WorkersBrokerLeftAlone
