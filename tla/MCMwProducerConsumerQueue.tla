--------------------- MODULE MCMwProducerConsumerQueue ---------------------
EXTENDS MwProducerConsumerQueue
=============================================================================
